---- MODULE Spec2Model ----
(***************************************************************************)
(* Trust Oracle backend server: the WebSocket session handlers             *)
(* (server.mjs), the device store (deviceManager.mjs), the signature       *)
(* verifier (cryptoManager.mjs) and the pet store (petManager.mjs).        *)
(***************************************************************************)
EXTENDS Integers, Sequences, FiniteSets, TLC

(***************************************************************************)
(* Bounds of the model and the identifiers it draws its inputs from.       *)
(***************************************************************************)
MaxRows == 2
MaxMarks == 1
MaxSubmissions == 2
MaxExperience == 5
MaxResource == 6
\* The clock is read at most this many seconds after start.
MaxTicks == 1

DeviceIds == {"d1", "d2"}
Keys == {"k1", "k2"}
Sessions == {"s1", "s2"}

(***************************************************************************)
(* JavaScript values as they appear in a parsed message: a missing field   *)
(* is undefined, a number or string carries its value, an array its        *)
(* elements.                                                               *)
(***************************************************************************)
Undefined == [t |-> "undefined"]
JsNull == [t |-> "null"]
Num(n) == [t |-> "number", v |-> n]
Str(s) == [t |-> "string", v |-> s]
Arr(a) == [t |-> "object", v |-> a]

\* JavaScript truthiness: undefined, null, 0 and "" are falsy; [] is truthy.
Truthy(x) ==
    CASE x.t = "undefined" -> FALSE
      [] x.t = "null" -> FALSE
      [] x.t = "number" -> x.v # 0
      [] x.t = "string" -> ("v" \in DOMAIN x => x.v # "")
      [] OTHER -> TRUE

\* a || b
OrElse(a, b) == IF Truthy(a) THEN a ELSE b

(***************************************************************************)
(* cryptoManager.mjs                                                       *)
(***************************************************************************)
\* Object.keys(obj).sort() over the keys a step_data payload can hold.
SortedKeys ==
    << "batteryPercent", "deviceId", "firmwareVersion",
       "rawAccSamples", "signature", "stepCount", "timestamp" >>

\* JSON.stringify of the key-sorted object: the members in key order, a
\* member whose value is undefined left out.
buildCanonicalJSON(obj) ==
    LET present == SelectSeq(SortedKeys,
                      LAMBDA k : k \in DOMAIN obj /\ obj[k] # Undefined)
    IN  [i \in 1..Len(present) |-> <<present[i], obj[present[i]]>>]

\* crypto.createHash('sha256').update(json).digest(), collision free.
Sha256(json) == [sha256 |-> json]

\* nacl.sign.detached(hash, secretKey): only the holder of key k makes it.
SignDetached(hash, k) == [signer |-> k, over |-> hash]

\* bytesToHex / hexToBytes: a well formed hex string decodes to the bytes it
\* encodes; BadHex has odd length and makes hexToBytes throw.
bytesToHex(bytes) == [t |-> "string", hex |-> bytes]
BadHex == [t |-> "string", odd |-> TRUE]
HexFails(h) == h.t # "string" \/ "hex" \notin DOMAIN h
hexToBytes(h) == h.hex

\* signData(payload, privateKey)
signData(payload, k) ==
    bytesToHex(SignDetached(Sha256(buildCanonicalJSON(payload)), k))

\* nacl.sign.detached.verify(hash, signature, publicKey)
NaclVerify(hash, sig, pk) == sig.signer = pk /\ sig.over = hash

\* verifySignature(payload, signatureHex, publicKeyHex): false on any throw.
verifySignature(payload, signatureHex, publicKeyHex) ==
    /\ ~HexFails(signatureHex)
    /\ ~HexFails(publicKeyHex)
    /\ NaclVerify(Sha256(buildCanonicalJSON(payload)),
                  hexToBytes(signatureHex), hexToBytes(publicKeyHex))

\* maxAge and maxFuture of validatePayload, in milliseconds.
MaxAgeMs == 7 * 24 * 60 * 60 * 1000
MaxFutureMs == 5 * 60 * 1000

\* validatePayload(payload): the set of errors; valid iff it is empty.
validatePayload(payload, nowMs) ==
    (IF ~Truthy(payload.deviceId) \/ payload.deviceId.t # "string"
        THEN {"Missing or invalid deviceId"} ELSE {})
    \cup (IF ~Truthy(payload.stepCount) \/ payload.stepCount.t # "number"
        THEN {"Missing or invalid stepCount"} ELSE {})
    \cup (IF ~Truthy(payload.timestamp) \/ payload.timestamp.t # "number"
        THEN {"Missing or invalid timestamp"} ELSE {})
    \cup (IF ~Truthy(payload.signature) \/ payload.signature.t # "string"
        THEN {"Missing or invalid signature"} ELSE {})
    \cup (IF Truthy(payload.stepCount)
             /\ (payload.stepCount.v < 0 \/ payload.stepCount.v > 100000)
        THEN {"Step count out of range (0-100000)"} ELSE {})
    \cup (IF Truthy(payload.timestamp)
             /\ payload.timestamp.v > nowMs + MaxFutureMs
        THEN {"Timestamp is too far in the future"} ELSE {})
    \cup (IF Truthy(payload.timestamp)
             /\ payload.timestamp.v < nowMs - MaxAgeMs
        THEN {"Timestamp is too old (max 7 days)"} ELSE {})
    \cup (IF payload.batteryPercent # Undefined
             /\ (payload.batteryPercent.v < 0 \/ payload.batteryPercent.v > 100)
        THEN {"Battery percent out of range (0-100)"} ELSE {})

(***************************************************************************)
(* State.                                                                  *)
(***************************************************************************)
VARIABLES
    now,          \* Date.now(), in milliseconds
    devices,      \* table devices: device_id -> row
    step_data,    \* table step_data: the rows in id order (id = index)
    dbQueue,      \* statements of calls nobody awaits, not yet executed
    connections,  \* DeviceManager.connections: deviceId -> {ws, lastSeen}
    sess,         \* per connection: open, and the closure's deviceId, authenticated
    lastReply,    \* the last frame sent and the connection it went to
    pets,         \* table pets: the rows in id order
    suiClient,    \* whether the chain client was constructed
    rowOrigin,    \* history: per step_data row, the message it came from and
                  \* the success flag its sender was answered with
    registeredOn, \* history: connections a register message succeeded on
    pending,      \* what the last getPendingStepData call resolved to
    committed,    \* history: ids whose markAsSubmitted UPDATE has run
    stage,        \* the process: "load" (the module body is running),
                  \* "scheduled" (past the Scheduled Tasks section), "up", "exited"
    cron,         \* whether cron.schedule installed the daily batch task
    batch,        \* the last run of submitBatchToBlockchain: how it ended, its
                  \* results, the submitStepData calls it made
    inflight,     \* the message handlers suspended on an await, in arrival
                  \* order, and (history) the order the answers were sent in
    onchain       \* the VirtualPet objects of the chain, by device

processVars == << stage, cron, batch, inflight, onchain >>

vars == << now, devices, step_data, dbQueue, connections, sess, lastReply,
           pets, suiClient, rowOrigin, registeredOn, pending, committed,
           processVars >>

HourMs == 60 * 60 * 1000
DayMs == 24 * HourMs
\* The clock's first reading: late enough that every timestamp used is positive.
StartMs == 10 * DayMs

(***************************************************************************)
(* deviceManager.mjs                                                       *)
(***************************************************************************)
\* getDevice(deviceId): the row, or undefined.
getDevice(deviceId) ==
    IF deviceId \in DOMAIN devices THEN devices[deviceId] ELSE Undefined

\* The INSERT of registerDevice fails with "UNIQUE constraint failed" when the
\* primary key device_id or the UNIQUE column public_key is already taken.
UniqueConstraintFailed(deviceId, publicKeyHex) ==
    \/ deviceId \in DOMAIN devices
    \/ \E e \in DOMAIN devices : devices[e].public_key = publicKeyHex

NewDeviceRow(deviceId, publicKeyHex) ==
    [ device_id |-> deviceId, public_key |-> publicKeyHex,
      registered_at |-> now, last_seen |-> now,
      total_steps |-> 0, total_submissions |-> 0,
      sui_device_object_id |-> JsNull, status |-> "active" ]

\* A mutant of registerDevice: INSERT OR REPLACE, a fresh row every time.
registerDevice_Replace(deviceId, publicKeyHex) ==
    (deviceId :> NewDeviceRow(deviceId, publicKeyHex)) @@ devices

\* registerDevice(deviceId, publicKeyHex): the devices table afterwards.
registerDevice(deviceId, publicKeyHex) ==
    IF ~UniqueConstraintFailed(deviceId, publicKeyHex)
    THEN (deviceId :> NewDeviceRow(deviceId, publicKeyHex)) @@ devices
    ELSE IF deviceId \in DOMAIN devices
         THEN [devices EXCEPT ![deviceId].last_seen = now]
         ELSE devices

\* storeStepData(deviceId, stepData) up to its first await: the INSERT it
\* hands to the database, with received_at taken when it is called.
InsertStatement(deviceId, stepData) ==
    [ kind |-> "insert",
      device_id |-> deviceId,
      step_count |-> stepData.stepCount.v,
      timestamp |-> stepData.timestamp.v,
      raw_samples |-> OrElse(stepData.rawAccSamples, Arr(<<>>)).v,
      battery_percent |-> OrElse(stepData.batteryPercent, Num(100)).v,
      signature |-> stepData.signature,
      verified |-> IF stepData.verified THEN 1 ELSE 0,
      received_at |-> now ]

\* The row an executed INSERT leaves in step_data.
StepRow(st, id) ==
    [ id |-> id, device_id |-> st.device_id, step_count |-> st.step_count,
      timestamp |-> st.timestamp, raw_samples |-> st.raw_samples,
      battery_percent |-> st.battery_percent, signature |-> st.signature,
      verified |-> st.verified, received_at |-> st.received_at,
      submitted_to_chain |-> 0, tx_digest |-> JsNull ]

\* storeStepData after the INSERT: the UPDATE of the device's statistics.
StatsStatement(st) ==
    [ kind |-> "stats", device_id |-> st.device_id,
      step_count |-> st.step_count, received_at |-> st.received_at,
      origin |-> st.origin ]

\* ORDER BY received_at ASC (rows of equal received_at in id order).
RECURSIVE SortByReceived(_)
SortByReceived(rows) ==
    IF rows = {} THEN << >>
    ELSE LET first == CHOOSE r \in rows : \A q \in rows :
                          \/ r.received_at < q.received_at
                          \/ r.received_at = q.received_at /\ r.id <= q.id
         IN  << first >> \o SortByReceived(rows \ {first})

\* A mutant of getPendingStepData: submitted_to_chain is not looked at.
getPendingStepData_AllVerified(deviceId) ==
    SortByReceived({ step_data[i] : i \in
        { j \in 1..Len(step_data) :
            /\ step_data[j].verified = 1
            /\ (Truthy(deviceId) => step_data[j].device_id = deviceId.v) } })

\* getPendingStepData(deviceId): the rows not submitted and verified, of the
\* device when one is given.
getPendingStepData(deviceId) ==
    SortByReceived({ step_data[i] : i \in
        { j \in 1..Len(step_data) :
            /\ step_data[j].submitted_to_chain = 0
            /\ step_data[j].verified = 1
            /\ (Truthy(deviceId) => step_data[j].device_id = deviceId.v) } })

RemoveAt(q, i) == SubSeq(q, 1, i - 1) \o SubSeq(q, i + 1, Len(q))

(***************************************************************************)
(* server.mjs: the WebSocket handlers.                                     *)
(***************************************************************************)
NoFrame == [to |-> "none", type |-> "none"]

\* No handler is suspended and no message has arrived.
NoHandlers == [handlers |-> << >>, arrivals |-> 0, sent |-> << >>]

\* No batch has run.
NoBatch == [status |-> "none", results |-> << >>, calls |-> << >>]

\* The server is up: the module body has run (the Scheduled Tasks section
\* found suiClient still unassigned, so no task was scheduled) and
\* initializeServices has finished, with or without a chain client.
Init ==
    /\ now = StartMs
    /\ devices = << >>
    /\ step_data = << >>
    /\ dbQueue = << >>
    /\ connections = << >>
    /\ sess = [s \in Sessions |->
                 [open |-> FALSE, deviceId |-> JsNull, authenticated |-> FALSE]]
    /\ lastReply = NoFrame
    /\ pets = << >>
    /\ suiClient \in BOOLEAN
    /\ rowOrigin = << >>
    /\ registeredOn = {}
    /\ pending = [rows |-> << >>, after |-> {}]
    /\ committed = {}
    /\ stage = "up"
    /\ cron = FALSE
    /\ batch = NoBatch
    /\ inflight = NoHandlers
    /\ onchain = << >>

\* wss.on('connection'): a fresh closure, and the welcome frame.
Connect(s) ==
    /\ ~sess[s].open
    /\ sess' = [sess EXCEPT ![s] =
                  [open |-> TRUE, deviceId |-> JsNull, authenticated |-> FALSE]]
    /\ lastReply' = [to |-> s, type |-> "welcome"]
    /\ UNCHANGED << now, devices, step_data, dbQueue, connections, pets,
                    suiClient, rowOrigin, registeredOn,
                    pending, committed,
                    processVars >>

\* unregisterConnection(deviceId): connections.delete(deviceId).
unregisterConnection(deviceId) ==
    [d \in DOMAIN connections \ {deviceId} |-> connections[d]]

\* ws.on('close')
Close(s) ==
    /\ sess[s].open
    /\ connections' = IF Truthy(sess[s].deviceId)
                         THEN unregisterConnection(sess[s].deviceId.v)
                         ELSE connections
    /\ sess' = [sess EXCEPT ![s] =
                  [open |-> FALSE, deviceId |-> JsNull, authenticated |-> FALSE]]
    /\ registeredOn' = registeredOn \ {s}
    /\ UNCHANGED << now, devices, step_data, dbQueue, lastReply, pets,
                    suiClient, rowOrigin,
                    pending, committed,
                    processVars >>

\* The register messages a device may send.
RegisterMessages ==
    [ type : {"register"},
      deviceId : {Str(d) : d \in DeviceIds} \cup {Undefined},
      publicKey : {bytesToHex(k) : k \in Keys} \cup {Undefined} ]

\* A mutant of handleRegister: a failing chain call fails the registration.
handleRegister_ChainFatal(s, m, chainOk) ==
    IF ~Truthy(m.deviceId) \/ ~Truthy(m.publicKey)
    THEN /\ lastReply' = [to |-> s, type |-> "register_response",
                           success |-> FALSE,
                           error |-> "Missing deviceId or publicKey"]
         /\ UNCHANGED devices
    ELSE /\ devices' = registerDevice(m.deviceId.v, m.publicKey)
         /\ lastReply' =
              IF suiClient /\ ~chainOk
              THEN [to |-> s, type |-> "register_response",
                    success |-> FALSE, error |-> "registerDevice failed"]
              ELSE [to |-> s, type |-> "register_response",
                    success |-> TRUE,
                    device |-> IF m.deviceId.v \in DOMAIN devices'
                               THEN devices'[m.deviceId.v] ELSE Undefined,
                    blockchainResult |-> suiClient /\ chainOk]

\* handleRegister(ws, message); chainOk is whether suiClient.registerDevice
\* returns rather than throws.
handleRegister(s, m, chainOk) ==
    IF ~Truthy(m.deviceId) \/ ~Truthy(m.publicKey)
    THEN /\ lastReply' = [to |-> s, type |-> "register_response",
                           success |-> FALSE,
                           error |-> "Missing deviceId or publicKey"]
         /\ UNCHANGED devices
    ELSE /\ devices' = registerDevice(m.deviceId.v, m.publicKey)
         /\ lastReply' = [to |-> s, type |-> "register_response",
                           success |-> TRUE,
                           device |-> IF m.deviceId.v \in DOMAIN devices'
                                      THEN devices'[m.deviceId.v] ELSE Undefined,
                           blockchainResult |-> suiClient /\ chainOk]

\* registerConnection(deviceId, ws, metadata)
registerConnection(deviceId, ws) ==
    (deviceId :> [ws |-> ws, lastSeen |-> now]) @@ connections

\* The authenticate messages a device may send.
AuthenticateMessages ==
    [ type : {"authenticate"},
      deviceId : {Str(d) : d \in DeviceIds} \cup {Undefined} ]

\* A mutant of handleAuthenticate: the device is not looked up.
handleAuthenticate_NoLookup(m) == Truthy(m.deviceId)

\* handleAuthenticate(ws, message): whether it returns success.
handleAuthenticate(m) ==
    /\ Truthy(m.deviceId)
    /\ getDevice(m.deviceId.v) # Undefined

\* A mutant of OnAuthenticate: a refused authenticate drops the session's
\* device and its connection entry.
OnAuthenticate_DropOnFailure(s, m) ==
    IF handleAuthenticate(m)
    THEN /\ connections' = registerConnection(m.deviceId.v, s)
         /\ lastReply' = [to |-> s, type |-> "auth_response",
                           success |-> TRUE, deviceId |-> m.deviceId]
         /\ sess' = [sess EXCEPT ![s].deviceId = m.deviceId,
                                  ![s].authenticated = TRUE]
    ELSE /\ lastReply' = [to |-> s, type |-> "auth_response",
                           success |-> FALSE,
                           error |-> IF Truthy(m.deviceId)
                                     THEN "Device not registered"
                                     ELSE "Missing deviceId"]
         /\ connections' = IF Truthy(sess[s].deviceId)
                            THEN unregisterConnection(sess[s].deviceId.v)
                            ELSE connections
         /\ sess' = [sess EXCEPT ![s].deviceId = JsNull,
                                  ![s].authenticated = FALSE]

\* case 'authenticate' of ws.on('message')
OnAuthenticate(s, m) ==
    IF handleAuthenticate(m)
    THEN /\ connections' = registerConnection(m.deviceId.v, s)
         /\ lastReply' = [to |-> s, type |-> "auth_response",
                           success |-> TRUE, deviceId |-> m.deviceId]
         /\ sess' = [sess EXCEPT ![s].deviceId = m.deviceId,
                                  ![s].authenticated = TRUE]
    ELSE /\ lastReply' = [to |-> s, type |-> "auth_response",
                           success |-> FALSE,
                           error |-> IF Truthy(m.deviceId)
                                     THEN "Device not registered"
                                     ELSE "Missing deviceId"]
         /\ UNCHANGED << connections, sess >>

(***************************************************************************)
(* step_data: the messages a device may send, and their handler.           *)
(***************************************************************************)
PayloadFields ==
    { "deviceId", "stepCount", "timestamp", "firmwareVersion",
      "batteryPercent", "rawAccSamples" }

\* The six fields of a message, as the device signs them.
Transmitted(m) == [f \in PayloadFields |-> m[f]]

\* The payload handleStepData verifies: absent or falsy firmwareVersion,
\* batteryPercent and rawAccSamples replaced by 100, 100 and [].
VerifiedPayload(m) ==
    [ deviceId |-> m.deviceId, stepCount |-> m.stepCount,
      timestamp |-> m.timestamp,
      firmwareVersion |-> OrElse(m.firmwareVersion, Num(100)),
      batteryPercent |-> OrElse(m.batteryPercent, Num(100)),
      rawAccSamples |-> OrElse(m.rawAccSamples, Arr(<< >>)) ]

\* The key pair each device holds.
DeviceKey(d) == IF d = "d1" THEN "k1" ELSE "k2"

Samples(n) == Arr([i \in 1..n |-> 1])

\* A device's usual payload: the values of the test client.
BasePayload(d) ==
    [ deviceId |-> Str(d), stepCount |-> Num(100),
      timestamp |-> Num(now - 60000), firmwareVersion |-> Num(100),
      batteryPercent |-> Num(85), rawAccSamples |-> Samples(1) ]

StepMessage(payload, signature) ==
    [type |-> "step_data"] @@ payload @@ [signature |-> signature]

\* What the test client sends, and what an attacker makes of it: the usual
\* payload signed with either key; an empty battery, signed as sent; the
\* usual payload with stepCount or firmwareVersion changed after signing;
\* a malformed and a missing signature.
ClientMessages(d) ==
    LET base == BasePayload(d)
        signed == signData(base, DeviceKey(d))
        flat == [base EXCEPT !.batteryPercent = Num(0)]
    IN  { StepMessage(base, signData(base, k)) : k \in Keys }
        \cup { StepMessage(flat, signData(flat, DeviceKey(d))) }
        \cup { StepMessage([base EXCEPT !.stepCount = Num(101)], signed),
               StepMessage([base EXCEPT !.firmwareVersion = Num(0)], signed),
               StepMessage(base, BadHex),
               StepMessage(base, Undefined) }

\* Values at and beyond the limits of each field.
LimitValues(f) ==
    CASE f = "stepCount" ->
            {Undefined, Num(-1), Num(0), Num(1), Num(100000), Num(100001)}
      [] f = "timestamp" ->
            {Num(0), Num(now - MaxAgeMs - 1), Num(now - MaxAgeMs),
             Num(now + MaxFutureMs), Num(now + MaxFutureMs + 1)}
      [] f = "batteryPercent" -> {Num(-1), Num(0), Num(100), Num(101)}
      [] f = "rawAccSamples" -> {Samples(30), Samples(31)}

\* What a device that sends no firmwareVersion sends, signed over the
\* payload the server rebuilds: the usual payload with one field at a limit.
LimitMessages(d) ==
    LET lean == [BasePayload(d) EXCEPT !.firmwareVersion = Undefined]
        sent == { [lean EXCEPT ![f] = v] : <<f, v>> \in
                    UNION { {f} \X LimitValues(f) : f \in
                      {"stepCount", "timestamp", "batteryPercent",
                       "rawAccSamples"} } }
    IN  { StepMessage(q, signData(VerifiedPayload(q), DeviceKey(d))) :
            q \in sent }

\* A mutant of StepDataRejection: the session's device is not compared.
StepDataRejection_NoMismatch(m, authenticatedDeviceId) ==
    IF m.deviceId.t # "string" THEN "Device ID mismatch"
    ELSE IF getDevice(m.deviceId.v) = Undefined THEN "Device not found"
    ELSE IF validatePayload(VerifiedPayload(m) @@ [signature |-> m.signature],
                            now) # {}
    THEN "Validation failed"
    ELSE IF ~verifySignature(VerifiedPayload(m), m.signature,
                             getDevice(m.deviceId.v).public_key)
    THEN "Invalid signature"
    ELSE ""

\* handleStepData up to the store: the error thrown, "" when none is.
StepDataRejection(m, authenticatedDeviceId) ==
    IF m.deviceId # authenticatedDeviceId THEN "Device ID mismatch"
    ELSE IF getDevice(m.deviceId.v) = Undefined THEN "Device not found"
    ELSE IF validatePayload(VerifiedPayload(m) @@ [signature |-> m.signature],
                            now) # {}
    THEN "Validation failed"
    ELSE IF ~verifySignature(VerifiedPayload(m), m.signature,
                             getDevice(m.deviceId.v).public_key)
    THEN "Invalid signature"
    ELSE ""

\* handleStepData after the store: deviceManager has no method
\* updateFirmwareVersion, so calling it throws a TypeError.
AfterStoreError(m) ==
    IF Truthy(m.firmwareVersion)
    THEN "deviceManager.updateFirmwareVersion is not a function"
    ELSE ""

InsertsQueued ==
    Cardinality({i \in 1..Len(dbQueue) : dbQueue[i].kind = "insert"})

\* handleStepData(ws, message, authenticatedDeviceId). storeStepData is not
\* awaited: its INSERT is queued and the handler goes on to reply.
handleStepData(s, m, authenticatedDeviceId) ==
    LET rejection == StepDataRejection(m, authenticatedDeviceId)
        failure == IF rejection # "" THEN rejection ELSE AfterStoreError(m)
        reply == IF failure = ""
                 THEN [to |-> s, type |-> "step_data_response",
                       success |-> TRUE, dataId |-> "{}",
                       stepCount |-> m.stepCount, verified |-> TRUE]
                 ELSE [to |-> s, type |-> "step_data_response",
                       success |-> FALSE, error |-> failure]
        statement ==
            InsertStatement(m.deviceId.v,
                [stepCount |-> m.stepCount, timestamp |-> m.timestamp,
                 rawAccSamples |-> m.rawAccSamples,
                 batteryPercent |-> m.batteryPercent,
                 signature |-> m.signature, verified |-> TRUE])
            @@ [origin |-> [message |-> m, success |-> reply.success,
                            session |-> authenticatedDeviceId]]
    IN  /\ rejection = "" => Len(step_data) + InsertsQueued < MaxRows
        /\ dbQueue' = IF rejection = "" THEN Append(dbQueue, statement)
                       ELSE dbQueue
        /\ lastReply' = reply

\* The message handler of a connection, for the types of the gateway proper.
\* An unauthenticated step_data is answered 'Not authenticated' and dropped.
OnRegister(s, m, chainOk) ==
    /\ sess[s].open
    /\ handleRegister(s, m, chainOk)
    /\ registeredOn' = IF lastReply'.success THEN registeredOn \cup {s}
                        ELSE registeredOn
    /\ UNCHANGED << now, step_data, dbQueue, connections, sess, pets,
                    suiClient, rowOrigin,
                    pending, committed,
                    processVars >>

OnAuthenticateMessage(s, m) ==
    /\ sess[s].open
    /\ OnAuthenticate(s, m)
    /\ UNCHANGED << now, devices, step_data, dbQueue, pets, suiClient,
                    rowOrigin, registeredOn,
                    pending, committed,
                    processVars >>

NotAuthenticated(s) == [to |-> s, type |-> "error", error |-> "Not authenticated"]

\* case 'step_data' of ws.on('message')
OnStepData(s, m) ==
    /\ sess[s].open
    /\ IF ~sess[s].authenticated
       THEN lastReply' = NotAuthenticated(s) /\ UNCHANGED dbQueue
       ELSE handleStepData(s, m, sess[s].deviceId)
    /\ UNCHANGED << now, devices, step_data, connections, sess, pets,
                    suiClient, rowOrigin, registeredOn,
                    pending, committed,
                    processVars >>

\* case 'ping' of ws.on('message')
OnPing(s) ==
    /\ sess[s].open
    /\ lastReply' = [to |-> s, type |-> "pong", timestamp |-> now]
    /\ UNCHANGED << now, devices, step_data, dbQueue, connections, sess,
                    pets, suiClient, rowOrigin, registeredOn,
                    pending, committed,
                    processVars >>

(***************************************************************************)
(* The database executing the statements of storeStepData.                 *)
(***************************************************************************)
\* The INSERT runs; storeStepData resumes and issues the statistics UPDATE.
DbInsert(i) ==
    /\ i \in 1..Len(dbQueue)
    /\ dbQueue[i].kind = "insert"
    /\ step_data' = Append(step_data, StepRow(dbQueue[i], Len(step_data) + 1))
    /\ rowOrigin' = Append(rowOrigin, dbQueue[i].origin)
    /\ dbQueue' = Append(RemoveAt(dbQueue, i), StatsStatement(dbQueue[i]))
    /\ UNCHANGED << now, devices, connections, sess, lastReply, pets,
                    suiClient, registeredOn,
                    pending, committed,
                    processVars >>

\* UPDATE devices SET total_steps = total_steps + ?, last_seen = ?
DbStats(i) ==
    /\ i \in 1..Len(dbQueue)
    /\ dbQueue[i].kind = "stats"
    /\ devices' = [devices EXCEPT
            ![dbQueue[i].device_id].total_steps = @ + dbQueue[i].step_count,
            ![dbQueue[i].device_id].last_seen = dbQueue[i].received_at]
    /\ dbQueue' = RemoveAt(dbQueue, i)
    /\ UNCHANGED << now, step_data, connections, sess, lastReply, pets,
                    suiClient, rowOrigin, registeredOn,
                    pending, committed,
                    processVars >>

\* A statement fails (disk full, database busy): the promise of the call
\* that issued it, storeStepData or markAsSubmitted, rejects, and the
\* statements the call had still to issue are never issued.
DbFail(i) ==
    /\ i \in 1..Len(dbQueue)
    /\ dbQueue' = RemoveAt(dbQueue, i)
    /\ UNCHANGED << now, devices, step_data, connections, sess, lastReply,
                    pets, suiClient, rowOrigin, registeredOn,
                    pending, committed,
                    processVars >>

(***************************************************************************)
(* petManager.mjs. A column holds a number or NULL; the server's clock is  *)
(* taken to run in UTC, so a stored CURRENT_TIMESTAMP reads back as the    *)
(* time it was written.                                                    *)
(***************************************************************************)
\* A number or null where JavaScript wants a number: null counts as 0.
ToNumber(x) == IF x.t = "number" THEN x.v ELSE 0

Min(a, b) == IF a < b THEN a ELSE b
Max(a, b) == IF a > b THEN a ELSE b

\* getPetByDeviceId(deviceId): the row, or undefined.
getPetByDeviceId(deviceId) ==
    IF deviceId \in DOMAIN pets THEN pets[deviceId] ELSE Undefined

\* getOrCreatePet(deviceId, petName) when the device has no pet: the INSERT,
\* the other columns at their defaults.
NewPetRow(deviceId, petName) ==
    [ id |-> Cardinality(DOMAIN pets) + 1, device_id |-> deviceId,
      pet_name |-> petName, pet_id |-> << "pet", deviceId, now >>,
      pet_object_id |-> JsNull,
      level |-> Num(0), experience |-> Num(0), total_steps_fed |-> Num(0),
      happiness |-> Num(50), hunger |-> Num(50), health |-> Num(100),
      food |-> Num(5), energy |-> Num(5),
      last_fed_at |-> now, last_played_at |-> now,
      on_chain |-> FALSE, tx_digest |-> JsNull ]

\* What a bound parameter stores when the driver takes undefined for NULL.
Bind(v) == IF v = Undefined THEN JsNull ELSE v

\* updatePetStats(petId, stats): all eight columns are written.
updatePetStats(P, d, stats) ==
    [P EXCEPT ![d] = [@ EXCEPT
        !.happiness = Bind(stats.happiness), !.hunger = Bind(stats.hunger),
        !.health = Bind(stats.health), !.experience = Bind(stats.experience),
        !.total_steps_fed = Bind(stats.total_steps_fed),
        !.level = Bind(stats.level), !.food = Bind(stats.food),
        !.energy = Bind(stats.energy)]]

\* updatePetResources(petId, food, energy)
updatePetResources(P, d, food, energy) ==
    [P EXCEPT ![d] = [@ EXCEPT !.food = Bind(food), !.energy = Bind(energy)]]

\* addPetResources(petId, foodToAdd, energyToAdd)
addPetResources(P, d, foodToAdd, energyToAdd) ==
    [P EXCEPT ![d] = [@ EXCEPT
        !.food = Num(ToNumber(P[d].food) + foodToAdd),
        !.energy = Num(ToNumber(P[d].energy) + energyToAdd)]]

\* The level feedPetLocal sets for the new experience.
FedLevel(level, newExperience) ==
    IF newExperience >= 5000 /\ ToNumber(level) < 4 THEN Num(4)
    ELSE IF newExperience >= 2000 /\ ToNumber(level) < 3 THEN Num(3)
    ELSE IF newExperience >= 500 /\ ToNumber(level) < 2 THEN Num(2)
    ELSE IF newExperience >= 100 /\ ToNumber(level) < 1 THEN Num(1)
    ELSE level

\* A mutant of feedPetLocal: the food is not used up.
feedPetLocal_KeepsFood(P, d) ==
    [P EXCEPT ![d] = [@ EXCEPT
        !.hunger = Num(Min(100, ToNumber(P[d].hunger) + 25)),
        !.happiness = Num(Min(100, ToNumber(P[d].happiness) + 5)),
        !.experience = Num(ToNumber(P[d].experience) + 10),
        !.level = FedLevel(P[d].level, ToNumber(P[d].experience) + 10),
        !.last_fed_at = now]]

\* feedPetLocal(petId), the pet having food.
feedPetLocal(P, d) ==
    [P EXCEPT ![d] = [@ EXCEPT
        !.food = Num(ToNumber(P[d].food) - 1),
        !.hunger = Num(Min(100, ToNumber(P[d].hunger) + 25)),
        !.happiness = Num(Min(100, ToNumber(P[d].happiness) + 5)),
        !.experience = Num(ToNumber(P[d].experience) + 10),
        !.level = FedLevel(P[d].level, ToNumber(P[d].experience) + 10),
        !.last_fed_at = now]]

\* A mutant of playWithPetLocal: the health is not clamped at 100.
playWithPetLocal_Unclamped(P, d) ==
    [P EXCEPT ![d] = [@ EXCEPT
        !.energy = Num(ToNumber(P[d].energy) - 1),
        !.happiness = Num(Min(100, ToNumber(P[d].happiness) + 15)),
        !.health = Num(ToNumber(P[d].health) + 3),
        !.experience = Num(ToNumber(P[d].experience) + 5),
        !.last_played_at = now]]

\* playWithPetLocal(petId), the pet having energy.
playWithPetLocal(P, d) ==
    [P EXCEPT ![d] = [@ EXCEPT
        !.energy = Num(ToNumber(P[d].energy) - 1),
        !.happiness = Num(Min(100, ToNumber(P[d].happiness) + 15)),
        !.health = Num(Min(100, ToNumber(P[d].health) + 3)),
        !.experience = Num(ToNumber(P[d].experience) + 5),
        !.last_played_at = now]]

\* updateTimeBasedStats(petId)
updateTimeBasedStats(P, d) ==
    LET pet == P[d]
        timeSinceFed == now - pet.last_fed_at
        timeSincePlayed == now - pet.last_played_at
        newHunger ==
            IF timeSinceFed > 3600000
            THEN Num(Max(0, ToNumber(pet.hunger) - (timeSinceFed \div 3600000)))
            ELSE pet.hunger
        newHappiness ==
            IF timeSincePlayed > 7200000
            THEN Num(Max(0, ToNumber(pet.happiness)
                               - (timeSincePlayed \div 7200000)))
            ELSE pet.happiness
        newHealth ==
            IF ToNumber(newHunger) < 20 \/ ToNumber(newHappiness) < 20
            THEN Num(Max(0, ToNumber(pet.health) - 1))
            ELSE IF ToNumber(newHunger) > 80 /\ ToNumber(newHappiness) > 80
            THEN Num(Min(100, ToNumber(pet.health) + 1))
            ELSE pet.health
    IN  IF newHunger # pet.hunger \/ newHappiness # pet.happiness
           \/ newHealth # pet.health
        THEN [P EXCEPT ![d] = [@ EXCEPT !.hunger = newHunger,
                                        !.happiness = newHappiness,
                                        !.health = newHealth]]
        ELSE P

\* markPetOnChain(petId, petObjectId, txDigest)
markPetOnChain(P, d, petObjectId, txDigest) ==
    [P EXCEPT ![d] = [@ EXCEPT !.on_chain = TRUE,
                               !.pet_object_id = petObjectId,
                               !.tx_digest = txDigest]]

(***************************************************************************)
(* server.mjs: the pet handlers. A call of the chain client throws,        *)
(* returns without the data asked for (no created object, no pet fields,   *)
(* no claim event), or returns it; the handler is taken to run to its end  *)
(* before the next message is handled. Whether the database driver stores  *)
(* NULL for a parameter that is undefined or throws is left open.          *)
(***************************************************************************)
ChainOutcomes == {"throws", "empty", "full"}

\* The pet as suiClient.getPet reads it from the chain.
ChainPet ==
    [ level |-> Num(1), experience |-> Num(120), total_steps_fed |-> Num(0),
      happiness |-> Num(60), hunger |-> Num(70), health |-> Num(90),
      food |-> Num(3), energy |-> Num(3) ]

PetError(s, text) ==
    [to |-> s, type |-> "pet_error", success |-> FALSE, error |-> text]

\* handleGetPet(ws, message, deviceId)
handleGetPet(s, m, deviceId, chain) ==
    IF ~Truthy(deviceId)
    THEN lastReply' = PetError(s, "Not authenticated") /\ UNCHANGED pets
    ELSE IF getPetByDeviceId(deviceId.v) = Undefined
    THEN LET d == deviceId.v
             newPet == NewPetRow(d, OrElse(m.petName, Str("Tamagotchi")))
             created == (d :> newPet) @@ pets
             onChain == suiClient /\ chain = "full"
         IN  /\ pets' = IF onChain
                        THEN markPetOnChain(created, d, Str("petObject"),
                                            Str("petTx"))
                        ELSE created
             /\ lastReply' =
                  [to |-> s, type |-> "pet_data", success |-> TRUE,
                   pet |-> IF onChain
                           THEN [newPet EXCEPT
                                   !.pet_object_id = Str("petObject"),
                                   !.on_chain = TRUE]
                           ELSE newPet]
    ELSE LET d == deviceId.v
             updated == updateTimeBasedStats(pets, d)
             updatedPet == updated[d]
             merged == IF suiClient /\ Truthy(updatedPet.pet_object_id)
                          /\ chain = "full"
                       THEN [updatedPet EXCEPT
                               !.happiness = ChainPet.happiness,
                               !.hunger = ChainPet.hunger,
                               !.health = ChainPet.health,
                               !.level = ChainPet.level,
                               !.total_steps_fed = ChainPet.total_steps_fed]
                       ELSE updatedPet
         IN  /\ pets' = updated
             /\ lastReply' = [to |-> s, type |-> "pet_data",
                              success |-> TRUE, pet |-> merged]

\* The updatePet messages a device may send.
UpdatePetMessages ==
    { [type |-> "updatePet", happiness |-> Num(h), hunger |-> Num(10),
       health |-> Num(2), experience |-> Num(100), total_steps_fed |-> Num(0),
       level |-> Num(0)] : h \in {60, 150} }

\* handleUpdatePet(ws, message, deviceId): updatePetStats is handed no food
\* and no energy.
handleUpdatePet(s, m, deviceId, bindsNull) ==
    IF ~Truthy(deviceId)
    THEN lastReply' = PetError(s, "Not authenticated") /\ UNCHANGED pets
    ELSE IF getPetByDeviceId(deviceId.v) = Undefined
    THEN lastReply' = PetError(s, "Pet not found") /\ UNCHANGED pets
    ELSE IF ~bindsNull
    THEN lastReply' = PetError(s, "TypeError") /\ UNCHANGED pets
    ELSE /\ pets' = updatePetStats(pets, deviceId.v,
                      [ happiness |-> m.happiness, hunger |-> m.hunger,
                        health |-> m.health, experience |-> m.experience,
                        total_steps_fed |-> m.total_steps_fed,
                        level |-> m.level, food |-> Undefined,
                        energy |-> Undefined ])
         /\ lastReply' = [to |-> s, type |-> "pet_updated", success |-> TRUE,
                          pet_id |-> pets[deviceId.v].pet_id]

\* The claimResources messages a device may send.
ClaimMessages ==
    { [type |-> "claimResources", steps |-> v] :
        v \in {Undefined, Num(50), Num(150)} }

\* handleClaimResources(ws, message, deviceId)
handleClaimResources(s, m, deviceId, chain, bindsNull) ==
    IF ~Truthy(deviceId)
    THEN lastReply' = PetError(s, "Not authenticated") /\ UNCHANGED pets
    ELSE IF getPetByDeviceId(deviceId.v) = Undefined
    THEN lastReply' = PetError(s, "Pet not found") /\ UNCHANGED pets
    ELSE IF ~Truthy(m.steps) \/ m.steps.v < 100
    THEN /\ lastReply' = PetError(s, "Insufficient steps (minimum 100)")
         /\ UNCHANGED pets
    ELSE LET d == deviceId.v
             foodGained == m.steps.v \div 100
             energyGained == (m.steps.v \div 150) * 2
             local == addPetResources(pets, d, foodGained, energyGained)
             after ==
                IF suiClient /\ Truthy(pets[d].pet_object_id)
                THEN CASE chain = "full" ->
                            updatePetResources(pets, d, ChainPet.food,
                                               ChainPet.energy)
                       [] chain = "empty" /\ bindsNull ->
                            updatePetResources(pets, d, Undefined, Undefined)
                       [] OTHER -> local
                ELSE local
         IN  /\ pets' = after
             /\ lastReply' = [to |-> s, type |-> "resources_claimed",
                              success |-> TRUE, foodGained |-> foodGained,
                              energyGained |-> energyGained, pet |-> after[d]]

\* What handleFeedPet and handlePlayWithPet write after the chain call
\* returned: the chain's pet, which has no total_steps_fed for updatePetStats.
ChainStats ==
    [ level |-> ChainPet.level, happiness |-> ChainPet.happiness,
      hunger |-> ChainPet.hunger, health |-> ChainPet.health,
      experience |-> ChainPet.experience, food |-> ChainPet.food,
      energy |-> ChainPet.energy, total_steps_fed |-> Undefined ]

\* handleFeedPet(ws, message, deviceId)
handleFeedPet(s, m, deviceId, chain, bindsNull) ==
    IF ~Truthy(deviceId)
    THEN lastReply' = PetError(s, "Not authenticated") /\ UNCHANGED pets
    ELSE IF getPetByDeviceId(deviceId.v) = Undefined
    THEN lastReply' = PetError(s, "Pet not found") /\ UNCHANGED pets
    ELSE IF ToNumber(pets[deviceId.v].food) <= 0
    THEN lastReply' = PetError(s, "No food available") /\ UNCHANGED pets
    ELSE LET d == deviceId.v
             after ==
                IF suiClient /\ Truthy(pets[d].pet_object_id)
                   /\ chain = "full" /\ bindsNull
                THEN updatePetStats(pets, d, ChainStats)
                ELSE feedPetLocal(pets, d)
         IN  /\ pets' = after
             /\ lastReply' =
                  [to |-> s, type |-> "pet_fed", success |-> TRUE,
                   pet |-> after[d],
                   evolved |-> ToNumber(after[d].level)
                                 > ToNumber(pets[d].level)]

\* handlePlayWithPet(ws, message, deviceId)
handlePlayWithPet(s, m, deviceId, chain, bindsNull) ==
    IF ~Truthy(deviceId)
    THEN lastReply' = PetError(s, "Not authenticated") /\ UNCHANGED pets
    ELSE IF getPetByDeviceId(deviceId.v) = Undefined
    THEN lastReply' = PetError(s, "Pet not found") /\ UNCHANGED pets
    ELSE IF ToNumber(pets[deviceId.v].energy) <= 0
    THEN lastReply' = PetError(s, "No energy available") /\ UNCHANGED pets
    ELSE LET d == deviceId.v
             after ==
                IF suiClient /\ Truthy(pets[d].pet_object_id)
                   /\ chain = "full" /\ bindsNull
                THEN updatePetStats(pets, d, ChainStats)
                ELSE playWithPetLocal(pets, d)
         IN  /\ pets' = after
             /\ lastReply' = [to |-> s, type |-> "pet_played",
                              success |-> TRUE, pet |-> after[d]]

\* The pet cases of ws.on('message'): each answers 'Not authenticated' and
\* returns when the connection is not authenticated.
OnGetPet(s, m, chain) ==
    /\ sess[s].open
    /\ IF ~sess[s].authenticated
       THEN lastReply' = NotAuthenticated(s) /\ UNCHANGED pets
       ELSE handleGetPet(s, m, sess[s].deviceId, chain)
    /\ UNCHANGED << now, devices, step_data, dbQueue, connections, sess,
                    suiClient, rowOrigin, registeredOn, pending, committed,
                    processVars >>

OnUpdatePet(s, m, bindsNull) ==
    /\ sess[s].open
    /\ IF ~sess[s].authenticated
       THEN lastReply' = NotAuthenticated(s) /\ UNCHANGED pets
       ELSE handleUpdatePet(s, m, sess[s].deviceId, bindsNull)
    /\ UNCHANGED << now, devices, step_data, dbQueue, connections, sess,
                    suiClient, rowOrigin, registeredOn, pending, committed,
                    processVars >>

OnClaimResources(s, m, chain, bindsNull) ==
    /\ sess[s].open
    /\ IF ~sess[s].authenticated
       THEN lastReply' = NotAuthenticated(s) /\ UNCHANGED pets
       ELSE handleClaimResources(s, m, sess[s].deviceId, chain, bindsNull)
    /\ UNCHANGED << now, devices, step_data, dbQueue, connections, sess,
                    suiClient, rowOrigin, registeredOn, pending, committed,
                    processVars >>

\* A mutant of OnFeedPet: the authenticated flag is not checked.
OnFeedPet_NoGuard(s, m, chain, bindsNull) ==
    /\ sess[s].open
    /\ handleFeedPet(s, m, sess[s].deviceId, chain, bindsNull)
    /\ UNCHANGED << now, devices, step_data, dbQueue, connections, sess,
                    suiClient, rowOrigin, registeredOn, pending, committed,
                    processVars >>

OnFeedPet(s, m, chain, bindsNull) ==
    /\ sess[s].open
    /\ IF ~sess[s].authenticated
       THEN lastReply' = NotAuthenticated(s) /\ UNCHANGED pets
       ELSE handleFeedPet(s, m, sess[s].deviceId, chain, bindsNull)
    /\ UNCHANGED << now, devices, step_data, dbQueue, connections, sess,
                    suiClient, rowOrigin, registeredOn, pending, committed,
                    processVars >>

OnPlayWithPet(s, m, chain, bindsNull) ==
    /\ sess[s].open
    /\ IF ~sess[s].authenticated
       THEN lastReply' = NotAuthenticated(s) /\ UNCHANGED pets
       ELSE handlePlayWithPet(s, m, sess[s].deviceId, chain, bindsNull)
    /\ UNCHANGED << now, devices, step_data, dbQueue, connections, sess,
                    suiClient, rowOrigin, registeredOn, pending, committed,
                    processVars >>

(***************************************************************************)
(* deviceManager.mjs: the pending scan and markAsSubmitted.                *)
(***************************************************************************)
TxDigests == {"tx1"}

\* The deviceId argument of getPendingStepData: null, or a device.
ScanFilters == {JsNull} \cup {Str(d) : d \in DeviceIds}

\* A call of getPendingStepData(deviceId) resolves.
PendingScan(deviceId) ==
    /\ pending' = [rows |-> getPendingStepData(deviceId), after |-> committed]
    /\ UNCHANGED << now, devices, step_data, dbQueue, connections, sess,
                    lastReply, pets, suiClient, rowOrigin, registeredOn,
                    committed,
                    processVars >>

\* The ids of the rows a pending scan would return now.
PendingIds ==
    {step_data[j].id : j \in {k \in 1..Len(step_data) :
        step_data[k].submitted_to_chain = 0 /\ step_data[k].verified = 1}}

\* The first statement of markAsSubmitted(dataIds, txDigest). before is
\* history: the listed ids that are pending when the call is made.
MarkStatement(dataIds, txDigest) ==
    [kind |-> "mark", ids |-> dataIds, tx_digest |-> txDigest,
     before |-> dataIds \cap PendingIds]

MarksQueued ==
    Cardinality({i \in 1..Len(dbQueue) : dbQueue[i].kind \in {"mark", "count"}})

\* markAsSubmitted(dataIds, txDigest) up to its first await: the UPDATE of
\* step_data it hands to the database. Its caller passes ids of rows a
\* pending scan returned.
markAsSubmitted(dataIds, txDigest) ==
    /\ dataIds # {}
    /\ dataIds \subseteq {pending.rows[i].id : i \in 1..Len(pending.rows)}
    /\ MarksQueued < MaxMarks
    /\ \A d \in DOMAIN devices : devices[d].total_submissions < MaxSubmissions
    /\ dbQueue' = Append(dbQueue, MarkStatement(dataIds, txDigest))
    /\ UNCHANGED << now, devices, step_data, connections, sess, lastReply,
                    pets, suiClient, rowOrigin, registeredOn, pending,
                    committed,
                    processVars >>

\* UPDATE step_data SET submitted_to_chain = 1, tx_digest = ? WHERE id IN
\* (...) runs; markAsSubmitted resumes, selects the DISTINCT device_id of
\* those rows (a row keeps its device_id, so the answer is the same whenever
\* the SELECT runs) and goes on to count a submission for each.
DbMark(i) ==
    /\ i \in 1..Len(dbQueue)
    /\ dbQueue[i].kind = "mark"
    /\ step_data' = [j \in 1..Len(step_data) |->
            IF step_data[j].id \in dbQueue[i].ids
            THEN [step_data[j] EXCEPT !.submitted_to_chain = 1,
                                      !.tx_digest = Str(dbQueue[i].tx_digest)]
            ELSE step_data[j]]
    /\ committed' = committed \cup
            {step_data[j].id : j \in {k \in 1..Len(step_data) :
                                        step_data[k].id \in dbQueue[i].ids}}
    /\ LET distinct == {step_data[j].device_id : j \in
                          {k \in 1..Len(step_data) :
                              step_data[k].id \in dbQueue[i].ids}}
       IN  dbQueue' = IF distinct = {} THEN RemoveAt(dbQueue, i)
                      ELSE Append(RemoveAt(dbQueue, i),
                                  [kind |-> "count", devices |-> distinct,
                                   counted |-> {},
                                   before |-> dbQueue[i].before])
    /\ UNCHANGED << now, devices, connections, sess, lastReply, pets,
                    suiClient, rowOrigin, registeredOn, pending,
                    processVars >>

\* UPDATE devices SET total_submissions = total_submissions + 1 for the next
\* device of the loop, in the order the SELECT returned them.
DbCount(i) ==
    /\ i \in 1..Len(dbQueue)
    /\ dbQueue[i].kind = "count"
    /\ \E d \in dbQueue[i].devices :
        /\ devices' = [devices EXCEPT ![d].total_submissions = @ + 1]
        /\ dbQueue' = IF dbQueue[i].devices = {d} THEN RemoveAt(dbQueue, i)
                      ELSE [dbQueue EXCEPT ![i].devices = @ \ {d},
                                           ![i].counted = @ \cup {d}]
    /\ UNCHANGED << now, step_data, connections, sess, lastReply, pets,
                    suiClient, rowOrigin, registeredOn, pending, committed,
                    processVars >>

(***************************************************************************)
(* server.mjs: start-up, and the batch submitter. An async method called   *)
(* without await hands back a promise: it has no length, cannot be         *)
(* iterated, and every column read from it is undefined.                   *)
(***************************************************************************)
PromiseOf(v) == [t |-> "promise", v |-> v]

\* x.length
Length(x) == IF x.t = "object" THEN Num(Len(x.v)) ELSE Undefined

\* Whether for (... of x) can run.
Iterable(x) == x.t = "object"

\* x[f] of what getDevice handed back: a column of the row, and undefined
\* of a promise of it.
Property(x, f) == IF x.t = "promise" THEN Undefined ELSE x.v[f]

\* The chain handles updateDeviceObjectId may record.
ObjectIds == [d \in DeviceIds |-> Str("obj-" \o d)]

\* updateDeviceObjectId(deviceId, objectId). The UPDATE names no row when the
\* device is unknown.
updateDeviceObjectId(deviceId, objectId) ==
    /\ stage = "up"
    /\ deviceId \in DOMAIN devices
    /\ devices[deviceId].sui_device_object_id # objectId
    /\ devices' = [devices EXCEPT ![deviceId].sui_device_object_id = objectId]
    /\ UNCHANGED << now, step_data, dbQueue, connections, sess, lastReply,
                    pets, suiClient, rowOrigin, registeredOn, pending,
                    committed, processVars >>

\* What suiClient.submitStepData does for each device's handle: it returns
\* {success: true, txDigest} or it throws.
ChainResults == [{ObjectIds[d] : d \in DeviceIds} -> {"ok", "throws"}]

\* The keys of byDevice in insertion order: the devices of the rows, each
\* where it first appears.
RECURSIVE GroupOrder(_)
GroupOrder(rows) ==
    IF rows = << >> THEN << >>
    ELSE LET d == rows[1].device_id
         IN  << d >> \o GroupOrder(SelectSeq(rows, LAMBDA r : r.device_id # d))

\* byDevice[deviceId]
DataList(rows, deviceId) == SelectSeq(rows, LAMBDA r : r.device_id = deviceId)

\* dataList.reduce((sum, d) => sum + d.step_count, 0)
RECURSIVE TotalSteps(_)
TotalSteps(dataList) ==
    IF dataList = << >> THEN 0
    ELSE dataList[1].step_count + TotalSteps(Tail(dataList))

\* The arguments of suiClient.submitStepData for a device's dataList.
SubmitCall(objectId, dataList) ==
    [ deviceObjectId |-> objectId,
      totalSteps |-> TotalSteps(dataList),
      timestamps |-> [i \in 1..Len(dataList) |-> dataList[i].timestamp],
      signatures |-> [i \in 1..Len(dataList) |-> dataList[i].signature] ]

\* The body of the loop "for (const [deviceId, dataList] of
\* Object.entries(byDevice))" run over the devices of order, from acc:
\* the results pushed, the submitStepData calls made, and the first
\* statements of the markAsSubmitted calls it starts and does not await.
\* device is what getDevice(deviceId) hands back without await.
RECURSIVE BatchLoop(_, _, _, _)
BatchLoop(order, rows, chain, acc) ==
    IF order = << >> THEN acc
    ELSE LET deviceId == order[1]
             dataList == DataList(rows, deviceId)
             device == PromiseOf(getDevice(deviceId))
             objectId == Property(device, "sui_device_object_id")
             call == SubmitCall(objectId, dataList)
             txDigest == "tx-" \o deviceId
             dataIds == {dataList[i].id : i \in 1..Len(dataList)}
             next ==
                IF ~Truthy(objectId) THEN acc
                ELSE IF chain[objectId] = "ok"
                THEN [ results |-> Append(acc.results,
                          [deviceId |-> deviceId, success |-> TRUE,
                           totalSteps |-> call.totalSteps,
                           recordCount |-> Len(dataList),
                           txDigest |-> txDigest]),
                       calls |-> Append(acc.calls, call),
                       marks |-> Append(acc.marks,
                                        MarkStatement(dataIds, txDigest)) ]
                ELSE [ results |-> Append(acc.results,
                          [deviceId |-> deviceId, success |-> FALSE,
                           error |-> "submitStepData failed"]),
                       calls |-> Append(acc.calls, call),
                       marks |-> acc.marks ]
         IN  BatchLoop(Tail(order), rows, chain, next)

\* submitBatchToBlockchain(). pending is what getPendingStepData() hands
\* back without await.
submitBatchToBlockchain(chain) ==
    IF ~suiClient
    THEN /\ batch' = [status |-> "returned", results |-> << >>,
                       calls |-> << >>]
         /\ UNCHANGED dbQueue
    ELSE LET pendingRows == PromiseOf(getPendingStepData(JsNull))
         IN  IF Length(pendingRows) = Num(0)
             THEN /\ batch' = [status |-> "returned", results |-> << >>,
                                calls |-> << >>]
                  /\ UNCHANGED dbQueue
             ELSE IF ~Iterable(pendingRows)
             THEN /\ batch' = [status |-> "threw", results |-> << >>,
                                calls |-> << >>,
                                error |-> "pending is not iterable"]
                  /\ UNCHANGED dbQueue
             ELSE LET out == BatchLoop(GroupOrder(pendingRows.v),
                                       pendingRows.v, chain,
                                       [results |-> << >>, calls |-> << >>,
                                        marks |-> << >>])
                  IN  /\ batch' = [status |-> "returned",
                                    results |-> out.results,
                                    calls |-> out.calls]
                      /\ dbQueue' = dbQueue \o out.marks

\* POST /api/oracle/submit-batch
ManualTrigger(chain) ==
    /\ stage = "up"
    /\ IF ~suiClient
       THEN /\ lastReply' = [to |-> "rest", type |-> "submit-batch",
                              status |-> 503, success |-> FALSE,
                              error |-> "Blockchain integration disabled"]
            /\ UNCHANGED << batch, dbQueue >>
       ELSE /\ submitBatchToBlockchain(chain)
            /\ lastReply' =
                 IF batch'.status = "threw"
                 THEN [to |-> "rest", type |-> "submit-batch",
                       status |-> 500, success |-> FALSE,
                       error |-> batch'.error]
                 ELSE [to |-> "rest", type |-> "submit-batch",
                       status |-> 200, success |-> TRUE,
                       submitted |-> Len(batch'.results),
                       results |-> batch'.results]
    /\ UNCHANGED << now, devices, step_data, connections, sess, pets,
                    suiClient, rowOrigin, registeredOn, pending, committed,
                    stage, cron, inflight, onchain >>

\* The Scheduled Tasks section of the module body: "if (suiClient)" installs
\* the daily task that runs submitBatchToBlockchain.
ScheduleTasks ==
    /\ stage = "load"
    /\ cron' = suiClient
    /\ stage' = "scheduled"
    /\ UNCHANGED << now, devices, step_data, dbQueue, connections, sess,
                    lastReply, pets, suiClient, rowOrigin, registeredOn,
                    pending, committed, batch, inflight, onchain >>

\* A mutant of initializeServices: the client is constructed whether or not
\* the three settings are present.
initializeServices_IgnoreConfig(configured, constructed) ==
    /\ stage = "scheduled"
    /\ suiClient' = constructed
    /\ stage' = "up"
    /\ UNCHANGED << now, devices, step_data, dbQueue, connections, sess,
                    lastReply, pets, rowOrigin, registeredOn, pending,
                    committed, cron, batch, inflight, onchain >>

\* initializeServices(), called on the last line of the module body:
\* configured is whether the three SUI_ settings are present, constructed
\* whether new SuiClient(...) returns rather than throws.
initializeServices(configured, constructed) ==
    /\ stage = "scheduled"
    /\ suiClient' = (configured /\ constructed)
    /\ stage' = "up"
    /\ UNCHANGED << now, devices, step_data, dbQueue, connections, sess,
                    lastReply, pets, rowOrigin, registeredOn, pending,
                    committed, cron, batch, inflight, onchain >>

(***************************************************************************)
(* The gateway with one connection, the devices registering their own keys, *)
(* and the step_data messages of ClientMessages.                           *)
(***************************************************************************)
GatewaySessions == {"s1"}

\* register messages carrying the sender's own public key, or lacking a field.
OwnRegisterMessages ==
    { m \in RegisterMessages :
        (Truthy(m.deviceId) /\ Truthy(m.publicKey))
            => m.publicKey = bytesToHex(DeviceKey(m.deviceId.v)) }

GatewayMessages == UNION { ClientMessages(d) : d \in DeviceIds }

Next ==
    \/ \E s \in GatewaySessions : Connect(s)
    \/ \E s \in GatewaySessions : Close(s)
    \/ \E s \in GatewaySessions, m \in OwnRegisterMessages, chainOk \in BOOLEAN :
          OnRegister(s, m, chainOk)
    \/ \E s \in GatewaySessions, m \in AuthenticateMessages :
          OnAuthenticateMessage(s, m)
    \/ \E s \in GatewaySessions, m \in GatewayMessages : OnStepData(s, m)
    \/ \E s \in GatewaySessions : OnPing(s)
    \/ \E i \in DOMAIN dbQueue : DbInsert(i)
    \/ \E i \in DOMAIN dbQueue : DbStats(i)
    \/ \E i \in DOMAIN dbQueue : DbFail(i)

Spec == Init /\ [][Next]_vars

(***************************************************************************)
(* Claims about step_data on the gateway.                                  *)
(***************************************************************************)
\* The signature of m is one the registered key of the device m names made
\* over the canonical form of the six fields as m carries them.
SignedAsSent(m) ==
    /\ m.deviceId.t = "string"
    /\ m.deviceId.v \in DOMAIN devices
    /\ verifySignature(Transmitted(m), m.signature,
                       devices[m.deviceId.v].public_key)

\* stepCount in 1..100000, batteryPercent in 0..100, timestamp in the window.
InRange(m) ==
    /\ m.stepCount.t = "number" /\ m.stepCount.v \in 1..100000
    /\ m.batteryPercent.t = "number" /\ m.batteryPercent.v \in 0..100
    /\ m.timestamp.t = "number"
    /\ m.timestamp.v >= now - MaxAgeMs
    /\ m.timestamp.v <= now + MaxFutureMs

\* The INSERT storeStepData issues for m holds the values m carries.
QueuedAsSent(q, m) ==
    \E i \in 1..Len(q) :
        /\ q[i].kind = "insert"
        /\ q[i].device_id = m.deviceId.v
        /\ q[i].step_count = m.stepCount.v
        /\ q[i].timestamp = m.timestamp.v
        /\ q[i].battery_percent = m.batteryPercent.v
        /\ q[i].raw_samples = m.rawAccSamples.v
        /\ q[i].verified = 1

\* C1: every stored step_data row comes from a message whose signature is
\* valid, under the registered key of its device, over the canonical form of
\* the fields as they were transmitted.
C1_StoredOnlyIfSignedAsSent ==
    \A i \in 1..Len(rowOrigin) : SignedAsSent(rowOrigin[i].message)

\* C2: on a session authenticated as d, a message for d with its fields in
\* range and signed by d's registered key over the six transmitted fields is
\* answered success=true, verified=true with its stepCount, and the record
\* handed to the store holds the transmitted values, verified.
C2_HonestSubmissionAccepted ==
    [][\A s \in GatewaySessions, m \in GatewayMessages :
          (/\ sess[s].authenticated
           /\ m.deviceId = sess[s].deviceId
           /\ InRange(m)
           /\ SignedAsSent(m)
           /\ OnStepData(s, m))
          => /\ lastReply'.type = "step_data_response"
             /\ lastReply'.success
             /\ lastReply'.verified
             /\ lastReply'.stepCount = m.stepCount
             /\ QueuedAsSent(dbQueue', m)]_vars

\* C3: a message answered success=false leaves no row in step_data.
C3_FailureStoresNothing ==
    \A i \in 1..Len(rowOrigin) : rowOrigin[i].success

\* C6: no two rows of step_data share device_id and timestamp.
C6_NoDuplicateRecords ==
    \A i, j \in 1..Len(step_data) :
        (/\ step_data[i].device_id = step_data[j].device_id
         /\ step_data[i].timestamp = step_data[j].timestamp) => i = j

\* C9: while the INSERT or the statistics UPDATE of a submission has not been
\* executed, its sender has not been answered success=true.
C9_SuccessOnlyAfterWrite ==
    \A i \in 1..Len(dbQueue) :
        dbQueue[i].kind \in {"insert", "stats"} => ~dbQueue[i].origin.success

(***************************************************************************)
(* The session states: one connection, the devices registering their own   *)
(* keys, and per device the one step_data message the gateway accepts.     *)
(***************************************************************************)
\* A device that sends no firmwareVersion and signs the payload the server
\* rebuilds from its message.
AcceptedMessage(d) ==
    LET lean == [BasePayload(d) EXCEPT !.firmwareVersion = Undefined]
    IN  StepMessage(lean, signData(VerifiedPayload(lean), DeviceKey(d)))

SessionMessages == { AcceptedMessage(d) : d \in DeviceIds }

NextSession ==
    \/ \E s \in GatewaySessions : Connect(s)
    \/ \E s \in GatewaySessions : Close(s)
    \/ \E s \in GatewaySessions, m \in OwnRegisterMessages, chainOk \in BOOLEAN :
          OnRegister(s, m, chainOk)
    \/ \E s \in GatewaySessions, m \in AuthenticateMessages :
          OnAuthenticateMessage(s, m)
    \/ \E s \in GatewaySessions, m \in SessionMessages : OnStepData(s, m)
    \/ \E i \in DOMAIN dbQueue : DbInsert(i)
    \/ \E i \in DOMAIN dbQueue : DbStats(i)
    \/ \E i \in DOMAIN dbQueue : DbFail(i)

SpecSession == Init /\ [][NextSession]_vars

\* C5 as stated: a connection is authenticated only if a register message
\* was accepted on it.
C5_AuthenticatedOnlyAfterRegister ==
    \A s \in Sessions : sess[s].authenticated => s \in registeredOn

\* C5 amended: authenticate is refused exactly when it names no device of the
\* device store, and then the session stays as it was; a session becomes
\* authenticated only by an authenticate message naming a stored device,
\* whether or not a register message was accepted on the connection.
C5_AuthenticateNeedsStoredDevice ==
    [][\A s \in GatewaySessions :
          /\ (sess'[s].authenticated /\ ~sess[s].authenticated)
                => \E m \in AuthenticateMessages :
                      /\ OnAuthenticateMessage(s, m)
                      /\ Truthy(m.deviceId)
                      /\ m.deviceId.v \in DOMAIN devices
                      /\ sess'[s].deviceId = m.deviceId
          /\ \A m \in AuthenticateMessages :
                OnAuthenticateMessage(s, m)
                => IF Truthy(m.deviceId) /\ m.deviceId.v \in DOMAIN devices
                   THEN /\ lastReply'.type = "auth_response"
                        /\ lastReply'.success
                        /\ sess'[s].authenticated
                   ELSE /\ lastReply'.type = "auth_response"
                        /\ ~lastReply'.success
                        /\ sess'[s] = sess[s]]_vars

\* C5 witness: a connection no register message was accepted on has been
\* authenticated by an authenticate message naming a stored device.
C5_Witness ==
    \E s \in GatewaySessions :
        /\ sess[s].authenticated
        /\ s \notin registeredOn
        /\ sess[s].deviceId.v \in DOMAIN devices
        /\ lastReply.type = "auth_response" /\ lastReply.success

\* C19: an authenticate message naming a deviceId that is not in the device
\* store is answered auth_response success=false, and the session's state,
\* its bound deviceId and the connection map stay as they were.
C19_UnknownDeviceRefused ==
    [][\A s \in GatewaySessions, m \in AuthenticateMessages :
          ( /\ Truthy(m.deviceId)
            /\ m.deviceId.v \notin DOMAIN devices
            /\ OnAuthenticateMessage(s, m) ) =>
              /\ lastReply' = [to |-> s, type |-> "auth_response",
                               success |-> FALSE,
                               error |-> "Device not registered"]
              /\ sess' = sess
              /\ connections' = connections]_vars

\* C19 witness: a session authenticated as a stored device was refused an
\* authenticate naming an unknown device and is still bound, with its
\* connection entry.
C19_Witness ==
    \E s \in GatewaySessions :
        /\ lastReply = [to |-> s, type |-> "auth_response", success |-> FALSE,
                        error |-> "Device not registered"]
        /\ sess[s].authenticated
        /\ sess[s].deviceId.v \in DOMAIN connections
        /\ connections[sess[s].deviceId.v].ws = s

\* C8: a step_data naming another device than the one the session is
\* authenticated as is answered success=false and hands nothing to the
\* store, and every record stored or being stored names the device of the
\* session it arrived on.
C8_MismatchRejected ==
    /\ [](/\ \A i \in 1..Len(rowOrigin) :
                rowOrigin[i].message.deviceId = rowOrigin[i].session
          /\ \A i \in 1..Len(dbQueue) :
                dbQueue[i].kind \in {"insert", "stats"} =>
                dbQueue[i].origin.message.deviceId = dbQueue[i].origin.session)
    /\ [][\A s \in GatewaySessions, m \in SessionMessages :
            (/\ sess[s].authenticated
             /\ m.deviceId # sess[s].deviceId
             /\ OnStepData(s, m))
            => /\ lastReply'.type = "step_data_response"
               /\ ~lastReply'.success
               /\ dbQueue' = dbQueue
               /\ step_data' = step_data
               /\ devices' = devices]_vars

\* C8 witness: on a session authenticated as one device, a message validly
\* signed by another registered device has been answered 'Device ID mismatch'.
C8_Witness ==
    \E s \in GatewaySessions :
        /\ sess[s].authenticated
        /\ lastReply = [to |-> s, type |-> "step_data_response",
                        success |-> FALSE, error |-> "Device ID mismatch"]
        /\ \E d \in DOMAIN devices :
              /\ Str(d) # sess[s].deviceId
              /\ verifySignature(VerifiedPayload(AcceptedMessage(d)),
                                 AcceptedMessage(d).signature,
                                 devices[d].public_key)

(***************************************************************************)
(* The limits of validatePayload: one device on one connection sending the *)
(* messages of LimitMessages.                                              *)
(***************************************************************************)
RangeMessages == LimitMessages("d1")

NextRange ==
    \/ \E s \in GatewaySessions : Connect(s)
    \/ \E s \in GatewaySessions : Close(s)
    \/ \E s \in GatewaySessions, chainOk \in BOOLEAN :
          OnRegister(s, [type |-> "register", deviceId |-> Str("d1"),
                         publicKey |-> bytesToHex(DeviceKey("d1"))], chainOk)
    \/ \E s \in GatewaySessions :
          OnAuthenticateMessage(s, [type |-> "authenticate",
                                    deviceId |-> Str("d1")])
    \/ \E s \in GatewaySessions, m \in RangeMessages : OnStepData(s, m)
    \/ \E i \in DOMAIN dbQueue : DbInsert(i)
    \/ \E i \in DOMAIN dbQueue : DbStats(i)
    \/ \E i \in DOMAIN dbQueue : DbFail(i)

SpecRange == Init /\ [][NextRange]_vars

\* C7: every stored row comes from a message with its timestamp no older
\* than 7 days and no more than 5 minutes ahead, its stepCount in 1..100000,
\* its batteryPercent in 0..100 and at most 30 samples, and that message was
\* not the one answered success=false.
C7_OutOfRangeNotStored ==
    \A i \in 1..Len(rowOrigin) :
        /\ InRange(rowOrigin[i].message)
        /\ Len(rowOrigin[i].message.rawAccSamples.v) <= 30

(***************************************************************************)
(* The store: the records of one device arriving through the gateway,      *)
(* scanned as pending and marked as submitted by a caller of the device    *)
(* manager. The device registers and authenticates once.                   *)
(***************************************************************************)
NextStore ==
    \/ \E s \in GatewaySessions : Connect(s)
    \/ \E s \in GatewaySessions :
          /\ "d1" \notin DOMAIN devices
          /\ OnRegister(s, [type |-> "register", deviceId |-> Str("d1"),
                            publicKey |-> bytesToHex(DeviceKey("d1"))], FALSE)
    \/ \E s \in GatewaySessions :
          /\ ~sess[s].authenticated
          /\ OnAuthenticateMessage(s, [type |-> "authenticate",
                                       deviceId |-> Str("d1")])
    \/ \E s \in GatewaySessions : OnStepData(s, AcceptedMessage("d1"))
    \/ \E i \in DOMAIN dbQueue : DbInsert(i)
    \/ \E i \in DOMAIN dbQueue : DbStats(i)
    \/ \E i \in DOMAIN dbQueue :
          dbQueue[i].kind \in {"mark", "count"} /\ DbFail(i)
    \/ \E deviceId \in ScanFilters : PendingScan(deviceId)
    \/ \E dataIds \in SUBSET (1..Len(step_data)), txDigest \in TxDigests :
          markAsSubmitted(dataIds, txDigest)
    \/ \E i \in DOMAIN dbQueue : DbMark(i)
    \/ \E i \in DOMAIN dbQueue : DbCount(i)

SpecStore == Init /\ [][NextStore]_vars

\* C10: a pending scan returns no row whose id a markAsSubmitted UPDATE had
\* committed before the scan ran, and a row once marked stays marked.
C10_MarkedNeverPending ==
    /\ \A i \in 1..Len(pending.rows) : pending.rows[i].id \notin pending.after
    /\ \A i \in 1..Len(step_data) :
          step_data[i].id \in committed => step_data[i].submitted_to_chain = 1

\* C10 witness: a scan that ran after a markAsSubmitted UPDATE had committed
\* returned the rows that were left pending.
C10_Witness ==
    /\ pending.after # {}
    /\ pending.rows # << >>
    /\ \E i \in 1..Len(step_data) : step_data[i].id \in pending.after

\* C11: when markAsSubmitted does not complete, because its UPDATE of
\* step_data or one of its UPDATEs of devices fails, every listed record
\* that was pending when it was called is still pending and it has counted
\* a submission for no device.
C11_MarkAllOrNothing ==
    [][\A i \in DOMAIN dbQueue :
          (dbQueue[i].kind \in {"mark", "count"} /\ DbFail(i)) =>
              /\ \A j \in 1..Len(step_data') :
                    step_data'[j].id \in dbQueue[i].before =>
                        step_data'[j].submitted_to_chain = 0
              /\ dbQueue[i].kind = "count" => dbQueue[i].counted = {}]_vars

(***************************************************************************)
(* The batch submitter: the process starts, the devices register with      *)
(* their own keys and send accepted step_data, the store records chain     *)
(* handles, and batches are triggered over REST.                           *)
(***************************************************************************)
\* The module body starts to run: nothing is assigned yet.
InitBoot ==
    /\ now = StartMs
    /\ devices = << >>
    /\ step_data = << >>
    /\ dbQueue = << >>
    /\ connections = << >>
    /\ sess = [s \in Sessions |->
                 [open |-> FALSE, deviceId |-> JsNull, authenticated |-> FALSE]]
    /\ lastReply = NoFrame
    /\ pets = << >>
    /\ suiClient = FALSE
    /\ rowOrigin = << >>
    /\ registeredOn = {}
    /\ pending = [rows |-> << >>, after |-> {}]
    /\ committed = {}
    /\ stage = "load"
    /\ cron = FALSE
    /\ batch = NoBatch
    /\ inflight = NoHandlers
    /\ onchain = << >>

NextBatch ==
    \/ ScheduleTasks
    \/ \E configured \in BOOLEAN, constructed \in BOOLEAN :
          initializeServices(configured, constructed)
    \/ \E s \in GatewaySessions : stage = "up" /\ Connect(s)
    \/ \E s \in GatewaySessions, d \in DeviceIds :
          /\ stage = "up"
          /\ d \notin DOMAIN devices
          /\ OnRegister(s, [type |-> "register", deviceId |-> Str(d),
                            publicKey |-> bytesToHex(DeviceKey(d))], TRUE)
    \/ \E s \in GatewaySessions, d \in DeviceIds :
          /\ stage = "up"
          /\ sess[s].deviceId # Str(d)
          /\ OnAuthenticateMessage(s, [type |-> "authenticate",
                                       deviceId |-> Str(d)])
    \/ \E s \in GatewaySessions, d \in DeviceIds :
          stage = "up" /\ OnStepData(s, AcceptedMessage(d))
    \/ \E i \in DOMAIN dbQueue : DbInsert(i)
    \/ \E i \in DOMAIN dbQueue : DbStats(i)
    \/ \E d \in DeviceIds : updateDeviceObjectId(d, ObjectIds[d])
    \/ \E chain \in ChainResults : ManualTrigger(chain)

SpecBatch == InitBoot /\ [][NextBatch]_vars

\* A device of the store that has pending records and a chain handle.
Submittable(d) ==
    /\ getPendingStepData(Str(d)) # << >>
    /\ Truthy(devices[d].sui_device_object_id)

\* The calls of the last run that carry the handle of device d.
CallsFor(d) ==
    SelectSeq(batch.calls,
              LAMBDA c : c.deviceObjectId = devices[d].sui_device_object_id)

\* C12: a batch run makes, for each device with pending records and a chain
\* handle, exactly one submitStepData call, carrying the sum of the step
\* counts of its pending records and their timestamps and signatures in
\* receive-time order; for a device without a handle it makes no call and
\* leaves its records pending.
C12_OneCallPerDevice ==
    [][\A chain \in ChainResults :
          (suiClient /\ ManualTrigger(chain)) =>
              \A d \in DOMAIN devices :
                  LET rows == getPendingStepData(Str(d))
                  IN  IF Submittable(d)
                      THEN CallsFor(d)' =
                             << SubmitCall(devices[d].sui_device_object_id,
                                           rows) >>
                      ELSE /\ \A i \in 1..Len(batch'.calls) :
                                batch'.calls[i].signatures #
                                    [j \in 1..Len(rows) |-> rows[j].signature]
                              \/ rows = << >>
                           /\ getPendingStepData(Str(d))' = rows]_vars

\* C13: a batch run in which the chain accepts a device's submission marks
\* the records carried for the device: it reports the transaction digest in
\* its summary and has handed those records, with that digest, to
\* markAsSubmitted, which counts one submission for the device.
C13_SuccessMarksRecords ==
    [][\A chain \in ChainResults :
          (suiClient /\ ManualTrigger(chain)) =>
              \A d \in DOMAIN devices :
                  (Submittable(d) /\
                   chain[devices[d].sui_device_object_id] = "ok") =>
                      \E i \in 1..Len(batch'.results), j \in DOMAIN dbQueue' :
                          /\ batch'.results[i].deviceId = d
                          /\ batch'.results[i].success
                          /\ dbQueue'[j].kind = "mark"
                          /\ dbQueue'[j].tx_digest = batch'.results[i].txDigest
                          /\ dbQueue'[j].ids =
                               {r.id : r \in
                                  {getPendingStepData(Str(d))[k] :
                                     k \in 1..Len(getPendingStepData(Str(d)))}}]_vars

\* C14: in a batch run, a device whose chain call fails keeps its records
\* pending and gets a failure entry in the summary, and every other device
\* whose chain call succeeds gets a success entry in the same summary.
C14_FailureIsolated ==
    [][\A chain \in ChainResults :
          (suiClient /\ ManualTrigger(chain)) =>
              \A d \in DOMAIN devices :
                  Submittable(d) =>
                      /\ batch'.status = "returned"
                      /\ \E i \in 1..Len(batch'.results) :
                            /\ batch'.results[i].deviceId = d
                            /\ batch'.results[i].success =
                                 (chain[devices[d].sui_device_object_id] = "ok")
                      /\ chain[devices[d].sui_device_object_id] = "throws" =>
                            getPendingStepData(Str(d))' =
                                getPendingStepData(Str(d))]_vars

\* C15: once the server is up with the chain configured, the daily batch
\* task is installed.
C15_ScheduledTriggerInstalled ==
    (stage = "up" /\ suiClient) => cron

(***************************************************************************)
(* Registration: devices register, with their own key or another's, again  *)
(* and again as the clock advances; device d1 authenticates and has one    *)
(* record stored.                                                          *)
(***************************************************************************)
\* Date.now() is read a second later.
Tick ==
    /\ now < StartMs + MaxTicks * 1000
    /\ now' = now + 1000
    /\ UNCHANGED << devices, step_data, dbQueue, connections, sess, lastReply,
                    pets, suiClient, rowOrigin, registeredOn, pending,
                    committed, processVars >>

\* The register messages that carry both fields.
CompleteRegisterMessages ==
    {m \in RegisterMessages : Truthy(m.deviceId) /\ Truthy(m.publicKey)}

NextRegister ==
    \/ \E s \in GatewaySessions : Connect(s)
    \/ \E s \in GatewaySessions, m \in RegisterMessages, chainOk \in BOOLEAN :
          OnRegister(s, m, chainOk)
    \/ \E s \in GatewaySessions :
          /\ ~sess[s].authenticated
          /\ OnAuthenticateMessage(s, [type |-> "authenticate",
                                       deviceId |-> Str("d1")])
    \/ \E s \in GatewaySessions :
          /\ step_data = << >>
          /\ dbQueue = << >>
          /\ OnStepData(s, AcceptedMessage("d1"))
    \/ \E i \in DOMAIN dbQueue : DbInsert(i)
    \/ \E i \in DOMAIN dbQueue : DbStats(i)
    \/ Tick

SpecRegister == Init /\ [][NextRegister]_vars

\* A register message that conflicts with the store: its key is bound to
\* another deviceId, or its deviceId is stored with another key.
Conflicting(m) ==
    \/ \E e \in DOMAIN devices :
          e # m.deviceId.v /\ devices[e].public_key = m.publicKey
    \/ /\ m.deviceId.v \in DOMAIN devices
       /\ devices[m.deviceId.v].public_key # m.publicKey

\* C16: a register message that conflicts with an existing binding is
\* answered register_response success=false and leaves the device store as
\* it was.
C16_ConflictRejected ==
    [][\A s \in GatewaySessions, m \in CompleteRegisterMessages,
          chainOk \in BOOLEAN :
          (Conflicting(m) /\ OnRegister(s, m, chainOk)) =>
              /\ lastReply'.success = FALSE
              /\ devices' = devices]_vars

\* C17: registering a stored deviceId again with its stored public key
\* succeeds, returns the stored record, and changes nothing in the device
\* store but that record's last_seen.
C17_ReRegistrationIdempotent ==
    [][\A s \in GatewaySessions, m \in CompleteRegisterMessages,
          chainOk \in BOOLEAN :
          ( /\ m.deviceId.v \in DOMAIN devices
            /\ devices[m.deviceId.v].public_key = m.publicKey
            /\ OnRegister(s, m, chainOk) ) =>
              /\ lastReply'.success
              /\ lastReply'.device = devices'[m.deviceId.v]
              /\ devices' = [devices EXCEPT ![m.deviceId.v].last_seen = now]]_vars

\* C17 witness: a register message was answered with a record that had been
\* registered earlier and has counted steps since.
C17_Witness ==
    /\ lastReply.type = "register_response"
    /\ lastReply.success
    /\ lastReply.device # Undefined
    /\ lastReply.device.last_seen > lastReply.device.registered_at
    /\ lastReply.device.total_steps > 0
    /\ lastReply.device = devices[lastReply.device.device_id]

\* C18: when the chain client is there and its registerDevice throws, a
\* register message is answered success=true and leaves the store as local
\* registration alone leaves it: a deviceId and key not bound before are
\* stored.
C18_ChainFailureStillRegisters ==
    [][\A s \in GatewaySessions, m \in CompleteRegisterMessages :
          (suiClient /\ OnRegister(s, m, FALSE)) =>
              /\ lastReply'.success
              /\ devices' = registerDevice(m.deviceId.v, m.publicKey)
              /\ ~UniqueConstraintFailed(m.deviceId.v, m.publicKey) =>
                    /\ m.deviceId.v \in DOMAIN devices'
                    /\ devices'[m.deviceId.v].public_key = m.publicKey]_vars

\* C18 witness: a device was registered and answered success=true although
\* the chain call failed.
C18_Witness ==
    /\ suiClient
    /\ lastReply.type = "register_response"
    /\ lastReply.success
    /\ lastReply.blockchainResult = FALSE
    /\ lastReply.device # Undefined
    /\ lastReply.device.registered_at = now
    /\ lastReply.device.device_id \in DOMAIN devices

(***************************************************************************)
(* Frames the message switch has no case for. The handler is an async      *)
(* function: an exception that leaves it rejects a promise nobody holds,   *)
(* which ends the process unless Node was started to only warn.            *)
(***************************************************************************)
\* Frames as they arrive: text that is not JSON, the JSON text null, and an
\* object of a type the switch does not know.
RawFrames == {"{not json", "null", "{\"type\":\"reboot\"}"}

\* JSON.parse(data.toString()): the value, or SyntaxError.
JSONParse(data) ==
    CASE data = "{not json" -> [t |-> "SyntaxError"]
      [] data = "null" -> JsNull
      [] OTHER -> [t |-> "object", v |-> [type |-> Str("reboot")]]

\* Whether reading x.type throws a TypeError.
TypeThrows(x) == x.t \in {"null", "undefined"}

\* The process ends: every connection is gone, nothing queued runs.
ProcessExit ==
    /\ stage' = "exited"
    /\ sess' = [s \in Sessions |->
                  [open |-> FALSE, deviceId |-> JsNull, authenticated |-> FALSE]]
    /\ connections' = << >>
    /\ dbQueue' = << >>

\* ws.on('message') for a frame of RawFrames. message stays null when
\* JSON.parse throws, and is null when the text is null: the catch block then
\* throws itself on message.type, before ws.send. exits is whether the
\* unhandled rejection ends the process.
OnRawFrame(s, data, exits) ==
    /\ stage = "up"
    /\ sess[s].open
    /\ LET parsed == JSONParse(data)
           message == IF parsed.t = "SyntaxError" THEN JsNull ELSE parsed
       IN  IF TypeThrows(message)
           THEN /\ UNCHANGED lastReply
                /\ IF exits THEN ProcessExit
                   ELSE UNCHANGED << stage, sess, connections, dbQueue >>
           ELSE /\ lastReply' = [to |-> s, type |-> "error",
                                  error |-> "Unknown message type"]
                /\ UNCHANGED << stage, sess, connections, dbQueue >>
    /\ UNCHANGED << now, devices, step_data, pets, suiClient, rowOrigin,
                    registeredOn, pending, committed, cron, batch, inflight,
                    onchain >>

NextFrames ==
    \/ \E s \in GatewaySessions : stage = "up" /\ Connect(s)
    \/ \E s \in GatewaySessions : stage = "up" /\ Close(s)
    \/ \E s \in GatewaySessions, m \in OwnRegisterMessages :
          stage = "up" /\ OnRegister(s, m, TRUE)
    \/ \E s \in GatewaySessions, m \in AuthenticateMessages :
          stage = "up" /\ OnAuthenticateMessage(s, m)
    \/ \E s \in GatewaySessions, d \in DeviceIds :
          stage = "up" /\ OnStepData(s, AcceptedMessage(d))
    \/ \E s \in GatewaySessions : stage = "up" /\ OnPing(s)
    \/ \E i \in DOMAIN dbQueue : stage = "up" /\ DbInsert(i)
    \/ \E i \in DOMAIN dbQueue : stage = "up" /\ DbStats(i)
    \/ \E s \in GatewaySessions, data \in RawFrames, exits \in BOOLEAN :
          OnRawFrame(s, data, exits)

SpecFrames == Init /\ [][NextFrames]_vars

\* C20: a frame that is not valid JSON, or of an unknown type, is answered
\* with an error frame on its connection, which stays open, and the process
\* keeps running.
C20_BadFrameAnswered ==
    [][\A s \in GatewaySessions, data \in RawFrames, exits \in BOOLEAN :
          OnRawFrame(s, data, exits) =>
              /\ lastReply'.to = s
              /\ lastReply'.type = "error"
              /\ sess'[s].open
              /\ stage' = "up"]_vars

(***************************************************************************)
(* The pet cases: one device on one connection, registering once, sending  *)
(* step_data and pet messages before and after it authenticates. A device  *)
(* stops feeding, playing and claiming at MaxExperience and MaxResource.   *)
(***************************************************************************)
PetBudget(s) ==
    sess[s].authenticated =>
        \A d \in DOMAIN pets :
            /\ ToNumber(pets[d].experience) < MaxExperience
            /\ ToNumber(pets[d].food) < MaxResource
            /\ ToNumber(pets[d].energy) < MaxResource

\* A message of one of the six types that need an authenticated connection.
GuardedMessage(s) ==
    \/ OnStepData(s, AcceptedMessage("d1"))
    \/ \E chain \in ChainOutcomes :
          OnGetPet(s, [type |-> "getPet", petName |-> Undefined], chain)
    \/ \E m \in UpdatePetMessages, bindsNull \in BOOLEAN :
          OnUpdatePet(s, m, bindsNull)
    \/ \E m \in ClaimMessages, chain \in ChainOutcomes, bindsNull \in BOOLEAN :
          PetBudget(s) /\ OnClaimResources(s, m, chain, bindsNull)
    \/ \E chain \in ChainOutcomes, bindsNull \in BOOLEAN :
          PetBudget(s) /\ OnFeedPet(s, [type |-> "feedPet"], chain, bindsNull)
    \/ \E chain \in ChainOutcomes, bindsNull \in BOOLEAN :
          PetBudget(s)
          /\ OnPlayWithPet(s, [type |-> "playWithPet"], chain, bindsNull)

NextPet ==
    \/ \E s \in GatewaySessions : Connect(s)
    \/ \E s \in GatewaySessions : Close(s)
    \/ \E s \in GatewaySessions :
          /\ "d1" \notin DOMAIN devices
          /\ OnRegister(s, [type |-> "register", deviceId |-> Str("d1"),
                            publicKey |-> bytesToHex(DeviceKey("d1"))], FALSE)
    \/ \E s \in GatewaySessions :
          OnAuthenticateMessage(s, [type |-> "authenticate",
                                    deviceId |-> Str("d1")])
    \/ \E s \in GatewaySessions : GuardedMessage(s)
    \/ \E i \in DOMAIN dbQueue : DbInsert(i)
    \/ \E i \in DOMAIN dbQueue : DbStats(i)
    \/ \E i \in DOMAIN dbQueue : DbFail(i)

SpecPet == Init /\ [][NextPet]_vars

\* C4: a step_data, getPet, updatePet, claimResources, feedPet or
\* playWithPet message on a connection that is not authenticated is answered
\* with the error frame 'Not authenticated', hands nothing to the store,
\* leaves the devices, the records and the pets as they were, and leaves the
\* connection open and not authenticated.
C4_UnauthenticatedRejected ==
    [][\A s \in GatewaySessions :
          (~sess[s].authenticated /\ GuardedMessage(s))
          => /\ lastReply' = NotAuthenticated(s)
             /\ dbQueue' = dbQueue
             /\ step_data' = step_data
             /\ devices' = devices
             /\ pets' = pets
             /\ sess'[s] = sess[s]
             /\ sess'[s].open]_vars

\* C4 witness: with a record stored and a pet created earlier, a message on
\* a connection that is open and not authenticated was answered
\* 'Not authenticated'.
C4_Witness ==
    \E s \in GatewaySessions :
        /\ sess[s].open
        /\ ~sess[s].authenticated
        /\ lastReply = NotAuthenticated(s)
        /\ step_data # << >>
        /\ DOMAIN pets # {}

(***************************************************************************)
(* SpecOrder: the message handler as the event loop runs it.  Every frame  *)
(* starts its own run of the async handler of ws.on('message'); a run that *)
(* reaches an await on the store or the chain is suspended, and the next   *)
(* frame's run starts before it resumes.                                   *)
(***************************************************************************)
MaxArrivals == 3

\* The answer to the arrival-th message of connection s goes out.
Sent(s, arrival) == Append(inflight.sent, [session |-> s, arrival |-> arrival])

\* A register frame arrives.  handleRegister throws before its first await
\* when a field is missing and answers at once; otherwise the run is
\* suspended at "await deviceManager.registerDevice(deviceId, publicKey)".
ArriveRegister(s, m) ==
    LET n == inflight.arrivals + 1
    IN  /\ stage = "up"
        /\ sess[s].open
        /\ inflight.arrivals < MaxArrivals
        /\ IF ~Truthy(m.deviceId) \/ ~Truthy(m.publicKey)
           THEN /\ handleRegister(s, m, FALSE)
                /\ inflight' = [inflight EXCEPT !.arrivals = n,
                                                !.sent = Sent(s, n)]
           ELSE /\ inflight' =
                     [inflight EXCEPT
                        !.arrivals = n,
                        !.handlers = Append(@, [session |-> s, message |-> m,
                                                arrival |-> n])]
                /\ UNCHANGED << devices, lastReply >>
        /\ UNCHANGED << now, step_data, dbQueue, connections, sess, pets,
                        suiClient, rowOrigin, registeredOn, pending,
                        committed, stage, cron, batch, onchain >>

\* The store (and then the chain, when there is a client) has answered: the
\* suspended run of handleRegister resumes and sends register_response.
ResumeRegister(i, chainOk) ==
    /\ i \in 1..Len(inflight.handlers)
    /\ LET h == inflight.handlers[i]
       IN  /\ handleRegister(h.session, h.message, chainOk)
           /\ registeredOn' = IF lastReply'.success
                               THEN registeredOn \cup {h.session}
                               ELSE registeredOn
           /\ inflight' = [inflight EXCEPT
                             !.handlers = RemoveAt(@, i),
                             !.sent = Sent(h.session, h.arrival)]
    /\ UNCHANGED << now, step_data, dbQueue, connections, sess, pets,
                    suiClient, rowOrigin, pending, committed,
                    stage, cron, batch, onchain >>

\* A ping frame arrives: case 'ping' has no await, the pong goes out in the
\* same turn of the event loop.
ArrivePing(s) ==
    LET n == inflight.arrivals + 1
    IN  /\ stage = "up"
        /\ sess[s].open
        /\ inflight.arrivals < MaxArrivals
        /\ lastReply' = [to |-> s, type |-> "pong", timestamp |-> now]
        /\ inflight' = [inflight EXCEPT !.arrivals = n, !.sent = Sent(s, n)]
        /\ UNCHANGED << now, devices, step_data, dbQueue, connections, sess,
                        pets, suiClient, rowOrigin, registeredOn, pending,
                        committed, stage, cron, batch, onchain >>

NextOrder ==
    \/ \E s \in Sessions : Connect(s)
    \/ \E s \in Sessions, m \in RegisterMessages : ArriveRegister(s, m)
    \/ \E i \in 1..MaxArrivals, chainOk \in BOOLEAN : ResumeRegister(i, chainOk)
    \/ \E s \in Sessions : ArrivePing(s)

SpecOrder == Init /\ [][NextOrder]_vars

\* C21: within one connection the answers go out in the order the messages
\* that caused them arrived: no answer to a later message is sent before the
\* answer to an earlier one.
C21_ResponsesInArrivalOrder ==
    \A i, j \in 1..Len(inflight.sent) :
        (i < j /\ inflight.sent[i].session = inflight.sent[j].session)
            => inflight.sent[i].arrival < inflight.sent[j].arrival

(***************************************************************************)
(* SpecPeers: two connections side by side.  Each registers devices under  *)
(* their own keys, authenticates as any device, sends step_data (the test   *)
(* client's message, and the same without firmwareVersion) and feedPet, and *)
(* closes.                                                                 *)
(***************************************************************************)
PeerMessages ==
    UNION { { AcceptedMessage(d),
              StepMessage(BasePayload(d),
                          signData(BasePayload(d), DeviceKey(d))) } :
            d \in DeviceIds }

\* A frame that reports a failure: error, pet_error, or success=false.
ErrorFrame(f) ==
    \/ f.type \in {"error", "pet_error"}
    \/ ("success" \in DOMAIN f /\ ~f.success)

\* A message is handled on connection s.
PeerMessage(s) ==
    \/ \E d \in DeviceIds, chainOk \in BOOLEAN :
          OnRegister(s, [type |-> "register", deviceId |-> Str(d),
                         publicKey |-> bytesToHex(DeviceKey(d))], chainOk)
    \/ \E m \in AuthenticateMessages : OnAuthenticateMessage(s, m)
    \/ \E m \in PeerMessages :
          /\ step_data = << >>
          /\ dbQueue = << >>
          /\ OnStepData(s, m)
    \/ \E chain \in ChainOutcomes, bindsNull \in BOOLEAN :
          OnFeedPet(s, [type |-> "feedPet"], chain, bindsNull)

NextPeers ==
    \/ \E s \in Sessions : Connect(s)
    \/ \E s \in Sessions : Close(s)
    \/ \E s \in Sessions : PeerMessage(s)
    \/ \E i \in DOMAIN dbQueue : DbInsert(i)
    \/ \E i \in DOMAIN dbQueue : DbStats(i)

SpecPeers == Init /\ [][NextPeers]_vars

\* C22: a message on connection A that is answered with an error frame
\* changes nothing another connection B can observe: the devices, the
\* submissions and the pets stay as they were and nothing is handed to the
\* store, B's closure variables stay as they were, and so does the
\* connection-map entry of B's device.
C22_ErrorChangesNothing ==
    [][\A A \in Sessions :
          (PeerMessage(A) /\ ErrorFrame(lastReply'))
          => /\ devices' = devices
             /\ step_data' = step_data
             /\ dbQueue' = dbQueue
             /\ pets' = pets
             /\ \A B \in Sessions \ {A} :
                   /\ sess'[B] = sess[B]
                   /\ Truthy(sess[B].deviceId)
                      => /\ (sess[B].deviceId.v \in DOMAIN connections')
                            = (sess[B].deviceId.v \in DOMAIN connections)
                         /\ sess[B].deviceId.v \in DOMAIN connections
                            => connections'[sess[B].deviceId.v]
                                 = connections[sess[B].deviceId.v]]_vars

\* C23: the connection map holds no entry that refers to a connection that
\* has closed, whichever devices that connection authenticated as.
C23_NoEntryForClosedConnection ==
    \A d \in DOMAIN connections : sess[connections[d].ws].open

\* C30: when connection A closes, an entry of the connection map that refers
\* to another connection B (which authenticated as the same device after A
\* did) stays in the map as it was.
C30_CloseKeepsSuccessorEntry ==
    [][\A A \in Sessions :
          Close(A)
          => \A d \in DOMAIN connections :
                connections[d].ws # A
                => /\ d \in DOMAIN connections'
                   /\ connections'[d] = connections[d]]_vars

(***************************************************************************)
(* SpecLocal: the server starts with or without its chain settings, on an  *)
(* empty database or on the one an earlier run with a chain client left    *)
(* (device d1 registered, its pet created on chain).  One device then      *)
(* registers, authenticates, sends step_data and pet messages, and a batch *)
(* is triggered over REST.                                                 *)
(***************************************************************************)
EarlierDevice ==
    [ device_id |-> "d1", public_key |-> bytesToHex(DeviceKey("d1")),
      registered_at |-> StartMs - DayMs, last_seen |-> StartMs - DayMs,
      total_steps |-> 0, total_submissions |-> 0,
      sui_device_object_id |-> JsNull, status |-> "active" ]

EarlierPet ==
    [ id |-> 1, device_id |-> "d1", pet_name |-> Str("Tamagotchi"),
      pet_id |-> << "pet", "d1", StartMs - DayMs >>,
      pet_object_id |-> Str("petObject"),
      level |-> Num(0), experience |-> Num(0), total_steps_fed |-> Num(0),
      happiness |-> Num(50), hunger |-> Num(50), health |-> Num(100),
      food |-> Num(5), energy |-> Num(5),
      last_fed_at |-> StartMs, last_played_at |-> StartMs,
      on_chain |-> TRUE, tx_digest |-> Str("petTx") ]

InitLocal ==
    /\ now = StartMs
    /\ \E earlier \in BOOLEAN :
          /\ devices = IF earlier THEN ("d1" :> EarlierDevice) ELSE << >>
          /\ pets = IF earlier THEN ("d1" :> EarlierPet) ELSE << >>
    /\ step_data = << >>
    /\ dbQueue = << >>
    /\ connections = << >>
    /\ sess = [s \in Sessions |->
                 [open |-> FALSE, deviceId |-> JsNull, authenticated |-> FALSE]]
    /\ lastReply = NoFrame
    /\ suiClient = FALSE
    /\ rowOrigin = << >>
    /\ registeredOn = {}
    /\ pending = [rows |-> << >>, after |-> {}]
    /\ committed = {}
    /\ stage = "load"
    /\ cron = FALSE
    /\ batch = NoBatch
    /\ inflight = NoHandlers
    /\ onchain = << >>

LocalRegister == [type |-> "register", deviceId |-> Str("d1"),
                  publicKey |-> bytesToHex(DeviceKey("d1"))]
LocalAuthenticate == [type |-> "authenticate", deviceId |-> Str("d1")]
LocalGetPet == [type |-> "getPet", petName |-> Undefined]
LocalClaim == [type |-> "claimResources", steps |-> Num(150)]

NextLocal ==
    \/ ScheduleTasks
    \/ \E configured \in BOOLEAN, constructed \in BOOLEAN :
          initializeServices(configured, constructed)
    \/ \E s \in GatewaySessions : stage = "up" /\ Connect(s)
    \/ \E s \in GatewaySessions, chainOk \in BOOLEAN :
          stage = "up" /\ OnRegister(s, LocalRegister, chainOk)
    \/ \E s \in GatewaySessions :
          stage = "up" /\ OnAuthenticateMessage(s, LocalAuthenticate)
    \/ \E s \in GatewaySessions :
          /\ stage = "up"
          /\ step_data = << >>
          /\ dbQueue = << >>
          /\ OnStepData(s, AcceptedMessage("d1"))
    \/ \E s \in GatewaySessions, chain \in ChainOutcomes :
          stage = "up" /\ OnGetPet(s, LocalGetPet, chain)
    \/ \E s \in GatewaySessions, chain \in ChainOutcomes, bindsNull \in BOOLEAN :
          /\ stage = "up"
          /\ PetBudget(s)
          /\ OnClaimResources(s, LocalClaim, chain, bindsNull)
    \/ \E s \in GatewaySessions, chain \in ChainOutcomes, bindsNull \in BOOLEAN :
          /\ stage = "up"
          /\ PetBudget(s)
          /\ OnFeedPet(s, [type |-> "feedPet"], chain, bindsNull)
    \/ \E s \in GatewaySessions, chain \in ChainOutcomes, bindsNull \in BOOLEAN :
          /\ stage = "up"
          /\ PetBudget(s)
          /\ OnPlayWithPet(s, [type |-> "playWithPet"], chain, bindsNull)
    \/ \E i \in DOMAIN dbQueue : DbInsert(i)
    \/ \E i \in DOMAIN dbQueue : DbStats(i)
    \/ \E chain \in ChainResults : ManualTrigger(chain)

SpecLocal == InitLocal /\ [][NextLocal]_vars

\* What a pet message does on an authenticated connection of device d when
\* only the local paths run.
LocalPetEffects(s, d) ==
    /\ \A chain \in ChainOutcomes :
          OnGetPet(s, LocalGetPet, chain)
          => /\ lastReply'.type = "pet_data"
             /\ lastReply'.success
             /\ pets' = IF d \in DOMAIN pets
                        THEN updateTimeBasedStats(pets, d)
                        ELSE (d :> NewPetRow(d, Str("Tamagotchi"))) @@ pets
             /\ lastReply'.pet = pets'[d]
    /\ \A chain \in ChainOutcomes, bindsNull \in BOOLEAN :
          (d \in DOMAIN pets /\ OnClaimResources(s, LocalClaim, chain, bindsNull))
          => /\ lastReply'.type = "resources_claimed"
             /\ lastReply'.success
             /\ pets' = addPetResources(pets, d, 1, 2)
    /\ \A chain \in ChainOutcomes, bindsNull \in BOOLEAN :
          (/\ d \in DOMAIN pets
           /\ ToNumber(pets[d].food) > 0
           /\ OnFeedPet(s, [type |-> "feedPet"], chain, bindsNull))
          => /\ lastReply'.type = "pet_fed"
             /\ lastReply'.success
             /\ pets' = feedPetLocal(pets, d)
    /\ \A chain \in ChainOutcomes, bindsNull \in BOOLEAN :
          (/\ d \in DOMAIN pets
           /\ ToNumber(pets[d].energy) > 0
           /\ OnPlayWithPet(s, [type |-> "playWithPet"], chain, bindsNull))
          => /\ lastReply'.type = "pet_played"
             /\ lastReply'.success
             /\ pets' = playWithPetLocal(pets, d)

MaxCare == 2

CareKinds == {"claimResources", "feedPet", "playWithPet"}

\* The steps a claimResources message reports.
CareSteps == 150

\* virtual_pet::check_evolution
check_evolution(pet) ==
    IF pet.experience >= 5000 /\ pet.level < 4 THEN [pet EXCEPT !.level = 4]
    ELSE IF pet.experience >= 2000 /\ pet.level < 3 THEN [pet EXCEPT !.level = 3]
    ELSE IF pet.experience >= 500 /\ pet.level < 2 THEN [pet EXCEPT !.level = 2]
    ELSE IF pet.experience >= 100 /\ pet.level < 1 THEN [pet EXCEPT !.level = 1]
    ELSE pet

\* virtual_pet::claim_resources, steps being at least 100
claim_resources(pet, steps) ==
    [pet EXCEPT !.food = @ + (steps \div 100),
                !.energy = @ + ((steps \div 150) * 2)]

\* virtual_pet::feed_pet, the pet having food
feed_pet(pet) ==
    check_evolution(
        [pet EXCEPT !.food = @ - 1,
                    !.hunger = IF @ + 25 > 100 THEN 100 ELSE @ + 25,
                    !.happiness = IF @ + 5 > 100 THEN 100 ELSE @ + 5,
                    !.experience = @ + 10])

\* virtual_pet::play_with_pet, the pet having energy
play_with_pet(pet) ==
    [pet EXCEPT !.energy = @ - 1,
                !.happiness = IF @ + 15 > 100 THEN 100 ELSE @ + 15,
                !.experience = @ + 5,
                !.health = IF @ + 3 > 100 THEN 100 ELSE @ + 3]

\* The assert! at the head of feed_pet and play_with_pet fails.
Aborts(kind, pet) ==
    \/ kind = "feedPet" /\ pet.food = 0
    \/ kind = "playWithPet" /\ pet.energy = 0

\* The transaction of a handler of this kind, executed on the pet.
Executed(kind, pet) ==
    CASE kind = "claimResources" -> claim_resources(pet, CareSteps)
      [] kind = "feedPet" -> feed_pet(pet)
      [] kind = "playWithPet" -> play_with_pet(pet)

\* suiClient.getPet: the fields of the object, parsed.
getPet(pet) == [f \in DOMAIN pet |-> Num(pet[f])]

\* The handler's own check: 'No food available', 'No energy available'.
Refused(kind, d) ==
    \/ kind = "feedPet" /\ ToNumber(pets[d].food) <= 0
    \/ kind = "playWithPet" /\ ToNumber(pets[d].energy) <= 0

\* A mutant of LocalThrows: the local update does not look at the pet again.
LocalThrows_NoSecondLook(kind, d) == FALSE

\* feedPetLocal and playWithPetLocal read the pet again and throw when the
\* food or the energy is used up.
LocalThrows(kind, d) ==
    \/ kind = "feedPet" /\ ToNumber(pets[d].food) <= 0
    \/ kind = "playWithPet" /\ ToNumber(pets[d].energy) <= 0

\* The local branch of the three handlers.
LocalEffect(kind, d) ==
    CASE kind = "claimResources" ->
            addPetResources(pets, d, CareSteps \div 100,
                            (CareSteps \div 150) * 2)
      [] kind = "feedPet" -> feedPetLocal(pets, d)
      [] kind = "playWithPet" -> playWithPetLocal(pets, d)

CareReply(s, kind, pet) ==
    [to |-> s, success |-> TRUE, pet |-> pet,
     type |-> CASE kind = "claimResources" -> "resources_claimed"
                [] kind = "feedPet" -> "pet_fed"
                [] kind = "playWithPet" -> "pet_played"]

CareError(s, kind) ==
    PetError(s, IF kind = "feedPet" THEN "No food available"
                ELSE "No energy available")

\* A claimResources, feedPet or playWithPet frame arrives on an
\* authenticated connection whose device has a pet: the handler runs to
\* its reply, or to the await of its chain call.
ArriveCare(s, kind) ==
    LET d == sess[s].deviceId.v
        n == inflight.arrivals + 1
    IN  /\ stage = "up"
        /\ sess[s].open
        /\ sess[s].authenticated
        /\ d \in DOMAIN pets
        /\ inflight.arrivals < MaxArrivals
        /\ Len(inflight.handlers) < MaxCare
        /\ IF Refused(kind, d)
           THEN /\ lastReply' = CareError(s, kind)
                /\ inflight' = [inflight EXCEPT !.arrivals = n]
                /\ UNCHANGED pets
           ELSE IF suiClient /\ Truthy(pets[d].pet_object_id)
           THEN /\ inflight' =
                     [inflight EXCEPT
                        !.arrivals = n,
                        !.handlers = Append(@,
                            [session |-> s, kind |-> kind, device |-> d,
                             arrival |-> n, pc |-> "call",
                             seen |-> Undefined])]
                /\ UNCHANGED << pets, lastReply >>
           ELSE /\ pets' = LocalEffect(kind, d)
                /\ lastReply' = CareReply(s, kind, pets'[d])
                /\ inflight' = [inflight EXCEPT !.arrivals = n]
        /\ UNCHANGED << now, devices, step_data, dbQueue, connections, sess,
                        suiClient, rowOrigin, registeredOn, pending,
                        committed, stage, cron, batch, onchain >>

\* The chain call of a suspended handler is carried out: the transaction
\* executes, or the call fails (the network, or the contract's assert).
\* claimResources returns the new food and energy of the event.
ChainExecute(i, ok) ==
    /\ i \in 1..Len(inflight.handlers)
    /\ inflight.handlers[i].pc = "call"
    /\ LET h == inflight.handlers[i]
           pet == onchain[h.device]
           after == Executed(h.kind, pet)
       IN  IF ok /\ ~Aborts(h.kind, pet)
           THEN /\ onchain' = [onchain EXCEPT ![h.device] = after]
                /\ inflight' =
                     [inflight EXCEPT !.handlers[i] =
                        IF h.kind = "claimResources"
                        THEN [h EXCEPT !.pc = "returned",
                                       !.seen = [food |-> Num(after.food),
                                                 energy |-> Num(after.energy)]]
                        ELSE [h EXCEPT !.pc = "read"]]
           ELSE /\ inflight' = [inflight EXCEPT !.handlers[i].pc = "failed"]
                /\ UNCHANGED onchain
    /\ UNCHANGED << now, devices, step_data, dbQueue, connections, sess,
                    lastReply, pets, suiClient, rowOrigin, registeredOn,
                    pending, committed, stage, cron, batch >>

\* "await suiClient.getPet" of handleFeedPet and handlePlayWithPet: the
\* object is read as it is now, or the read fails.
ChainRead(i, ok) ==
    /\ i \in 1..Len(inflight.handlers)
    /\ inflight.handlers[i].pc = "read"
    /\ LET h == inflight.handlers[i]
       IN  inflight' =
             [inflight EXCEPT !.handlers[i] =
                IF ok THEN [h EXCEPT !.pc = "returned",
                                     !.seen = getPet(onchain[h.device])]
                ELSE [h EXCEPT !.pc = "failed"]]
    /\ UNCHANGED << now, devices, step_data, dbQueue, connections, sess,
                    lastReply, pets, suiClient, rowOrigin, registeredOn,
                    pending, committed, stage, cron, batch, onchain >>

\* The suspended handler resumes with what the chain answered: it writes
\* the chain's values (updatePetResources, updatePetStats without
\* total_steps_fed), or, in its catch block, updates locally; then replies.
ResumeCare(i, bindsNull) ==
    /\ i \in 1..Len(inflight.handlers)
    /\ inflight.handlers[i].pc \in {"returned", "failed"}
    /\ LET h == inflight.handlers[i]
           d == h.device
           mirrored == h.pc = "returned"
                       /\ (h.kind = "claimResources" \/ bindsNull)
       IN  /\ IF mirrored
              THEN /\ pets' =
                        IF h.kind = "claimResources"
                        THEN updatePetResources(pets, d, h.seen.food,
                                                h.seen.energy)
                        ELSE updatePetStats(pets, d,
                               [h.seen EXCEPT !.total_steps_fed = Undefined])
                   /\ lastReply' = CareReply(h.session, h.kind, pets'[d])
              ELSE IF LocalThrows(h.kind, d)
              THEN /\ lastReply' = CareError(h.session, h.kind)
                   /\ UNCHANGED pets
              ELSE /\ pets' = LocalEffect(h.kind, d)
                   /\ lastReply' = CareReply(h.session, h.kind, pets'[d])
           /\ inflight' = [inflight EXCEPT !.handlers = RemoveAt(@, i)]
    /\ UNCHANGED << now, devices, step_data, dbQueue, connections, sess,
                    suiClient, rowOrigin, registeredOn, pending, committed,
                    stage, cron, batch, onchain >>

\* The pet of device d1 after some play: close to the upper limits, with
\* little food and energy left.
CarePet(food, energy) ==
    [ level |-> 0, experience |-> 0, total_steps_fed |-> 0,
      happiness |-> 90, hunger |-> 90, health |-> 99,
      food |-> food, energy |-> energy ]

\* The database and the chain as earlier runs left them: d1 is registered,
\* its pet has a chain handle, and the local row and the chain object may
\* disagree on food and energy.
InitCare ==
    /\ now = StartMs
    /\ devices = ("d1" :> EarlierDevice)
    /\ \E food \in 0..1, energy \in 0..1 :
          pets = ("d1" :> (getPet(CarePet(food, energy)) @@ EarlierPet))
    /\ \E food \in 0..1, energy \in 0..1 :
          onchain = ("d1" :> CarePet(food, energy))
    /\ step_data = << >>
    /\ dbQueue = << >>
    /\ connections = << >>
    /\ sess = [s \in Sessions |->
                 [open |-> FALSE, deviceId |-> JsNull, authenticated |-> FALSE]]
    /\ lastReply = NoFrame
    /\ suiClient \in BOOLEAN
    /\ rowOrigin = << >>
    /\ registeredOn = {}
    /\ pending = [rows |-> << >>, after |-> {}]
    /\ committed = {}
    /\ stage = "up"
    /\ cron = FALSE
    /\ batch = NoBatch
    /\ inflight = NoHandlers

NextCare ==
    \/ \E s \in GatewaySessions : Connect(s)
    \/ \E s \in GatewaySessions : OnAuthenticateMessage(s, LocalAuthenticate)
    \/ \E s \in GatewaySessions, kind \in CareKinds : ArriveCare(s, kind)
    \/ \E i \in 1..MaxCare, ok \in BOOLEAN : ChainExecute(i, ok)
    \/ \E i \in 1..MaxCare, ok \in BOOLEAN : ChainRead(i, ok)
    \/ \E i \in 1..MaxCare, bindsNull \in BOOLEAN : ResumeCare(i, bindsNull)

SpecCare == InitCare /\ [][NextCare]_vars

\* A column holds a number within the limits given.
Within(v, low, high) == v.t = "number" /\ v.v >= low /\ v.v <= high

C26_ChainHandleStored ==
    [][\A s \in GatewaySessions, m \in CompleteRegisterMessages :
          (/\ suiClient
           /\ OnRegister(s, m, TRUE)
           /\ m.deviceId.v \in DOMAIN devices')
          => Truthy(devices'[m.deviceId.v].sui_device_object_id)]_vars

(***************************************************************************)
(* SpecRemark: the store as in SpecStore, its caller marking with either   *)
(* of two transaction digests, and no statement failing.                   *)
(***************************************************************************)
MarkDigests == {"tx1", "tx2"}

NextRemark ==
    \/ \E s \in GatewaySessions : Connect(s)
    \/ \E s \in GatewaySessions :
          /\ "d1" \notin DOMAIN devices
          /\ OnRegister(s, [type |-> "register", deviceId |-> Str("d1"),
                            publicKey |-> bytesToHex(DeviceKey("d1"))], FALSE)
    \/ \E s \in GatewaySessions :
          /\ ~sess[s].authenticated
          /\ OnAuthenticateMessage(s, [type |-> "authenticate",
                                       deviceId |-> Str("d1")])
    \/ \E s \in GatewaySessions : OnStepData(s, AcceptedMessage("d1"))
    \/ \E i \in DOMAIN dbQueue : DbInsert(i)
    \/ \E i \in DOMAIN dbQueue : DbStats(i)
    \/ \E deviceId \in ScanFilters : PendingScan(deviceId)
    \/ \E dataIds \in SUBSET (1..Len(step_data)), txDigest \in MarkDigests :
          markAsSubmitted(dataIds, txDigest)
    \/ \E i \in DOMAIN dbQueue : DbMark(i)
    \/ \E i \in DOMAIN dbQueue : DbCount(i)

SpecRemark == Init /\ [][NextRemark]_vars

\* C27: a record is flagged submitted exactly when it holds a transaction
\* digest; a record once submitted keeps its flag and its digest; and a
\* submission is counted for a device only by a call of markAsSubmitted that
\* listed a record still pending when it was made.
C27_SubmittedIsFinal ==
    [][/\ \A j \in 1..Len(step_data') :
             (step_data'[j].submitted_to_chain = 1)
                <=> Truthy(step_data'[j].tx_digest)
       /\ \A j \in 1..Len(step_data) :
             step_data[j].submitted_to_chain = 1
             => /\ step_data'[j].submitted_to_chain = 1
                /\ step_data'[j].tx_digest = step_data[j].tx_digest
       /\ \A i \in DOMAIN dbQueue :
             DbCount(i) => dbQueue[i].before # {}]_vars

\* The sum of step_count over the rows of device d.
RECURSIVE StoredSteps(_, _)
StoredSteps(rows, d) ==
    IF rows = << >> THEN 0
    ELSE (IF Head(rows).device_id = d THEN Head(rows).step_count ELSE 0)
         + StoredSteps(Tail(rows), d)

\* C28: in every state each device's cumulative step count equals the sum of
\* the step counts of its stored records.
C28_TotalMatchesRecords ==
    \A d \in DOMAIN devices :
        devices[d].total_steps = StoredSteps(step_data, d)

(***************************************************************************)
(* SpecGrowth: the pet rules on the local path.  Device d1 is registered   *)
(* and its pet has no chain handle; the pet is as created, or as two       *)
(* claims of 150 steps, six feeds and seven plays left it.  The device     *)
(* authenticates and sends getPet, claimResources, feedPet and playWithPet. *)
(***************************************************************************)
MaxGrowth == 110

\* The pet after getPet created it, 2 claimResources of 150 steps, 6 feedPet
\* and 7 playWithPet: 95 experience, level 0, 1 food and 2 energy left.
GrownPet ==
    [ id |-> 1, device_id |-> "d1", pet_name |-> Str("Tamagotchi"),
      pet_id |-> << "pet", "d1", StartMs >>,
      pet_object_id |-> JsNull,
      level |-> Num(0), experience |-> Num(95), total_steps_fed |-> Num(0),
      happiness |-> Num(100), hunger |-> Num(100), health |-> Num(100),
      food |-> Num(1), energy |-> Num(2),
      last_fed_at |-> StartMs, last_played_at |-> StartMs,
      on_chain |-> FALSE, tx_digest |-> JsNull ]

\* The pet as getPet created it.
CreatedPet ==
    [GrownPet EXCEPT !.experience = Num(0), !.happiness = Num(50),
                     !.hunger = Num(50), !.food = Num(5), !.energy = Num(5)]

InitGrowth ==
    /\ now = StartMs
    /\ devices = ("d1" :> EarlierDevice)
    /\ \E grown \in BOOLEAN :
          pets = ("d1" :> IF grown THEN GrownPet ELSE CreatedPet)
    /\ step_data = << >>
    /\ dbQueue = << >>
    /\ connections = << >>
    /\ sess = [s \in Sessions |->
                 [open |-> FALSE, deviceId |-> JsNull, authenticated |-> FALSE]]
    /\ lastReply = NoFrame
    /\ suiClient \in BOOLEAN
    /\ rowOrigin = << >>
    /\ registeredOn = {}
    /\ pending = [rows |-> << >>, after |-> {}]
    /\ committed = {}
    /\ stage = "up"
    /\ cron = FALSE
    /\ batch = NoBatch
    /\ inflight = NoHandlers
    /\ onchain = << >>

\* The device stops claiming at MaxResource and feeding and playing at
\* MaxGrowth.
GrowthBudget ==
    \A d \in DOMAIN pets :
        /\ ToNumber(pets[d].experience) < MaxGrowth
        /\ ToNumber(pets[d].food) < MaxResource
        /\ ToNumber(pets[d].energy) < MaxResource

NextGrowth ==
    \/ \E s \in GatewaySessions : Connect(s)
    \/ \E s \in GatewaySessions : OnAuthenticateMessage(s, LocalAuthenticate)
    \/ \E s \in GatewaySessions, chain \in ChainOutcomes :
          OnGetPet(s, LocalGetPet, chain)
    \/ \E s \in GatewaySessions, m \in ClaimMessages, chain \in ChainOutcomes,
          bindsNull \in BOOLEAN :
          GrowthBudget /\ OnClaimResources(s, m, chain, bindsNull)
    \/ \E s \in GatewaySessions, chain \in ChainOutcomes, bindsNull \in BOOLEAN :
          GrowthBudget /\ OnFeedPet(s, [type |-> "feedPet"], chain, bindsNull)
    \/ \E s \in GatewaySessions, chain \in ChainOutcomes, bindsNull \in BOOLEAN :
          GrowthBudget
          /\ OnPlayWithPet(s, [type |-> "playWithPet"], chain, bindsNull)

SpecGrowth == InitGrowth /\ [][NextGrowth]_vars

\* The number of the thresholds 100, 500, 2000, 5000 an experience reached.
ThresholdsReached(experience) ==
    Cardinality({x \in {100, 500, 2000, 5000} : experience >= x})

\* C33: through getPet, claimResources, feedPet and playWithPet on the local
\* path, the level of a pet is the number of the thresholds 100, 500, 2000,
\* 5000 its experience has reached, and no step lowers the level.
C33_LevelFollowsExperience ==
    [][\A d \in DOMAIN pets' :
          /\ pets'[d].level.v = ThresholdsReached(pets'[d].experience.v)
          /\ d \in DOMAIN pets => pets'[d].level.v >= pets[d].level.v]_vars

(***************************************************************************)
(* SpecDecay: the grown pet is read, fed and played with while the clock   *)
(* advances by hours.  The device stops reading once the pet has lost      *)
(* MaxDecay of its hunger or of its happiness.                             *)
(***************************************************************************)
MaxHours == 3
MaxDecay == 10

\* Date.now() is read an hour later.
Hour ==
    /\ now < StartMs + MaxHours * HourMs
    /\ now' = now + HourMs
    /\ UNCHANGED << devices, step_data, dbQueue, connections, sess, lastReply,
                    pets, suiClient, rowOrigin, registeredOn, pending,
                    committed, processVars >>

InitDecay == InitGrowth /\ pets["d1"] = GrownPet

NextDecay ==
    \/ \E s \in GatewaySessions : Connect(s)
    \/ \E s \in GatewaySessions : OnAuthenticateMessage(s, LocalAuthenticate)
    \/ \E s \in GatewaySessions, chain \in ChainOutcomes :
          /\ \A d \in DOMAIN pets :
                /\ ToNumber(pets[d].hunger) > 100 - MaxDecay
                /\ ToNumber(pets[d].happiness) > 100 - MaxDecay
          /\ OnGetPet(s, LocalGetPet, chain)
    \/ \E s \in GatewaySessions, chain \in ChainOutcomes, bindsNull \in BOOLEAN :
          GrowthBudget /\ OnFeedPet(s, [type |-> "feedPet"], chain, bindsNull)
    \/ \E s \in GatewaySessions, chain \in ChainOutcomes, bindsNull \in BOOLEAN :
          GrowthBudget
          /\ OnPlayWithPet(s, [type |-> "playWithPet"], chain, bindsNull)
    \/ Hour

SpecDecay == InitDecay /\ [][NextDecay]_vars

\* C35: with no feed or play in between, what getPet observes depends on the
\* time elapsed and not on the number of reads: after a getPet, a second read
\* at the same instant would persist the same hunger and happiness.
C35_ReadsDoNotAccumulate ==
    [][\A s \in GatewaySessions, chain \in ChainOutcomes :
          (sess[s].authenticated /\ OnGetPet(s, LocalGetPet, chain))
          => LET d == sess[s].deviceId.v
                 again == updateTimeBasedStats(pets', d)
             IN  /\ again[d].hunger = pets'[d].hunger
                 /\ again[d].happiness = pets'[d].happiness]_vars

\* The pet of the connection's device is on the local path: there is no
\* chain client or the pet has no chain handle.
LocalPath(s) ==
    /\ sess[s].authenticated
    /\ sess[s].deviceId.v \in DOMAIN pets
    /\ ~(suiClient /\ Truthy(pets[sess[s].deviceId.v].pet_object_id))

\* C36: feedPet on the local path, the pet having food, uses exactly 1 food,
\* sets hunger to min(100, hunger + 25) and happiness to
\* min(100, happiness + 5), adds 10 to the experience, leaves health and
\* energy as they were and answers pet_fed; with no food it answers
\* pet_error and leaves the pet as it was.
C36_FeedRule ==
    [][\A s \in GatewaySessions, chain \in ChainOutcomes, bindsNull \in BOOLEAN :
          (LocalPath(s) /\ OnFeedPet(s, [type |-> "feedPet"], chain, bindsNull))
          => LET before == pets[sess[s].deviceId.v]
                 after == pets'[sess[s].deviceId.v]
             IN  IF before.food.v >= 1
                 THEN /\ after.food = Num(before.food.v - 1)
                      /\ after.hunger = Num(Min(100, before.hunger.v + 25))
                      /\ after.happiness =
                            Num(Min(100, before.happiness.v + 5))
                      /\ after.experience = Num(before.experience.v + 10)
                      /\ after.health = before.health
                      /\ after.energy = before.energy
                      /\ lastReply'.type = "pet_fed"
                      /\ lastReply'.success
                      /\ lastReply'.pet = after
                 ELSE /\ lastReply'.type = "pet_error"
                      /\ ~lastReply'.success
                      /\ pets' = pets]_vars

\* C36 witness: the pet was fed up to the limit of its hunger until no food
\* was left, and the next feedPet was refused.
C36_Witness ==
    /\ lastReply.type = "pet_error"
    /\ lastReply.error = "No food available"
    /\ pets["d1"].food = Num(0)
    /\ pets["d1"].hunger = Num(100)
    /\ pets["d1"].experience.v >= 50

\* C37: playWithPet on the local path, the pet having energy, uses exactly 1
\* energy, sets happiness to min(100, happiness + 15) and health to
\* min(100, health + 3), adds 5 to the experience, leaves hunger and food as
\* they were and answers pet_played; with no energy it answers pet_error and
\* leaves the pet as it was.
C37_PlayRule ==
    [][\A s \in GatewaySessions, chain \in ChainOutcomes, bindsNull \in BOOLEAN :
          (/\ LocalPath(s)
           /\ OnPlayWithPet(s, [type |-> "playWithPet"], chain, bindsNull))
          => LET before == pets[sess[s].deviceId.v]
                 after == pets'[sess[s].deviceId.v]
             IN  IF before.energy.v >= 1
                 THEN /\ after.energy = Num(before.energy.v - 1)
                      /\ after.happiness =
                            Num(Min(100, before.happiness.v + 15))
                      /\ after.health = Num(Min(100, before.health.v + 3))
                      /\ after.experience = Num(before.experience.v + 5)
                      /\ after.hunger = before.hunger
                      /\ after.food = before.food
                      /\ lastReply'.type = "pet_played"
                      /\ lastReply'.success
                      /\ lastReply'.pet = after
                 ELSE /\ lastReply'.type = "pet_error"
                      /\ ~lastReply'.success
                      /\ pets' = pets]_vars

\* C37 witness: the pet was played with until no energy was left, its
\* happiness at the limit, and the next playWithPet was refused.
C37_Witness ==
    /\ lastReply.type = "pet_error"
    /\ lastReply.error = "No energy available"
    /\ pets["d1"].energy = Num(0)
    /\ pets["d1"].happiness = Num(100)
    /\ pets["d1"].experience.v >= 25

\* C34: after every write to a pet, an updatePet message with arbitrary
\* values included, the persisted happiness, hunger and health are numbers
\* within 0..100 and the level is a number within 0..4.
C34_WritesClamped ==
    \A d \in DOMAIN pets :
        /\ Within(pets[d].happiness, 0, 100)
        /\ Within(pets[d].hunger, 0, 100)
        /\ Within(pets[d].health, 0, 100)
        /\ Within(pets[d].level, 0, 4)

(***************************************************************************)
(* SpecSync: as SpecCare, from a database and a chain object that agree on *)
(* the food and the energy of the pet.                                     *)
(***************************************************************************)
InitSync ==
    /\ InitCare
    /\ \A f \in {"food", "energy"} : pets["d1"][f] = Num(onchain["d1"][f])

SpecSync == InitSync /\ [][NextCare]_vars

\* C32: a feedPet or playWithPet on a pet with a chain handle is always
\* answered success, and what it persists is either the chain's snapshot
\* (happiness, hunger, health, level, experience, food, energy) or the local
\* rule applied once to the pet.
C32_ChainOrLocalOnce ==
    [][\A i \in 1..MaxCare, bindsNull \in BOOLEAN :
          (/\ ResumeCare(i, bindsNull)
           /\ inflight.handlers[i].kind \in {"feedPet", "playWithPet"})
          => LET h == inflight.handlers[i]
                 d == h.device
             IN  /\ lastReply'.success
                 /\ \/ /\ h.pc = "returned"
                       /\ \A f \in {"happiness", "hunger", "health", "level",
                                    "experience", "food", "energy"} :
                             pets'[d][f] = h.seen[f]
                    \/ pets' = LocalEffect(h.kind, d)]_vars

\* C38: a claimResources of at least 100 steps adds floor(steps / 100) to the
\* food of the pet and 2 * floor(steps / 150) to its energy, changes no other
\* field of the pet, and is answered success.
C38_ClaimAddsGains ==
    [][\A i \in 1..MaxCare, bindsNull \in BOOLEAN :
          (/\ ResumeCare(i, bindsNull)
           /\ inflight.handlers[i].kind = "claimResources")
          => LET d == inflight.handlers[i].device
             IN  /\ lastReply'.success
                 /\ pets'[d] =
                      [pets[d] EXCEPT
                         !.food = Num(@.v + (CareSteps \div 100)),
                         !.energy = Num(@.v + ((CareSteps \div 150) * 2))]]_vars

(***************************************************************************)
(* SpecCreate: getPet as the event loop runs it.  handleGetPet is          *)
(* suspended at "await petManager.getPetByDeviceId" with the row the call  *)
(* found, and again at its chain call: suiClient.createPet raced against a *)
(* timer of 30 s for a pet just created, suiClient.getPet for a pet with a *)
(* chain handle.  The chain may answer a call late or never.  Device d1 is *)
(* registered and has no pet, or the pet an earlier run created on chain.  *)
(***************************************************************************)
\* virtual_pet::create_pet
create_pet ==
    [ level |-> 0, experience |-> 0, total_steps_fed |-> 0,
      happiness |-> 50, hunger |-> 50, health |-> 100,
      food |-> 5, energy |-> 5 ]

\* A mutant of getOrCreatePet: the INSERT is made without looking for a pet
\* of the device first.
getOrCreatePet_AlwaysInserts(deviceId, petName) ==
    (deviceId :> NewPetRow(deviceId, petName)) @@ pets

\* getOrCreatePet(deviceId, petName): the pets table afterwards; the pet
\* returned is the row of the device.
getOrCreatePet(deviceId, petName) ==
    IF getPetByDeviceId(deviceId) # Undefined THEN pets
    ELSE (deviceId :> NewPetRow(deviceId, petName)) @@ pets

InitCreate ==
    /\ now = StartMs
    /\ devices = ("d1" :> EarlierDevice)
    /\ \E earlier \in BOOLEAN :
          /\ pets = IF earlier THEN ("d1" :> EarlierPet) ELSE << >>
          /\ onchain = IF earlier THEN ("d1" :> create_pet) ELSE << >>
    /\ step_data = << >>
    /\ dbQueue = << >>
    /\ connections = << >>
    /\ sess = [s \in Sessions |->
                 [open |-> FALSE, deviceId |-> JsNull, authenticated |-> FALSE]]
    /\ lastReply = NoFrame
    /\ suiClient \in BOOLEAN
    /\ rowOrigin = << >>
    /\ registeredOn = {}
    /\ pending = [rows |-> << >>, after |-> {}]
    /\ committed = {}
    /\ stage = "up"
    /\ cron = FALSE
    /\ batch = NoBatch
    /\ inflight = NoHandlers

\* A getPet frame arrives: case 'getPet' answers 'Not authenticated', or
\* handleGetPet runs up to "await petManager.getPetByDeviceId(deviceId)",
\* the call made and its result in hand.
ArriveGetPet(s) ==
    LET n == inflight.arrivals + 1
    IN  /\ stage = "up"
        /\ sess[s].open
        /\ inflight.arrivals < MaxArrivals
        /\ IF ~sess[s].authenticated
           THEN /\ lastReply' = NotAuthenticated(s)
                /\ inflight' = [inflight EXCEPT !.arrivals = n,
                                                !.sent = Sent(s, n)]
           ELSE /\ inflight' =
                     [inflight EXCEPT
                        !.arrivals = n,
                        !.handlers = Append(@,
                            [session |-> s, kind |-> "getPet",
                             device |-> sess[s].deviceId.v, arrival |-> n,
                             pc |-> "lookup",
                             seen |-> getPetByDeviceId(sess[s].deviceId.v)])]
                /\ UNCHANGED lastReply
        /\ UNCHANGED << now, devices, step_data, dbQueue, connections, sess,
                        pets, suiClient, rowOrigin, registeredOn, pending,
                        committed, stage, cron, batch, onchain >>

\* handleGetPet resumes with the row it looked up.  Without one it calls
\* getOrCreatePet and, with a chain client and the pet not on chain, starts
\* suiClient.createPet and the timer; with one it calls
\* updateTimeBasedStats and, with a chain client and a chain handle, starts
\* suiClient.getPet.  Otherwise it answers pet_data.
ResumeLookup(i) ==
    /\ i \in 1..Len(inflight.handlers)
    /\ inflight.handlers[i].pc = "lookup"
    /\ LET h == inflight.handlers[i]
           d == h.device
           after == IF h.seen = Undefined
                    THEN getOrCreatePet(d, Str("Tamagotchi"))
                    ELSE updateTimeBasedStats(pets, d)
           pet == after[d]
           calls == IF h.seen = Undefined
                    THEN suiClient /\ ~pet.on_chain
                    ELSE suiClient /\ Truthy(pet.pet_object_id)
       IN  /\ pets' = after
           /\ IF calls
              THEN /\ inflight' =
                        [inflight EXCEPT !.handlers[i] =
                           [h EXCEPT
                              !.pc = IF h.seen = Undefined THEN "create"
                                     ELSE "sync",
                              !.seen = pet]]
                   /\ UNCHANGED lastReply
              ELSE /\ lastReply' = [to |-> h.session, type |-> "pet_data",
                                    success |-> TRUE, pet |-> pet]
                   /\ inflight' = [inflight EXCEPT
                                     !.handlers = RemoveAt(@, i),
                                     !.sent = Sent(h.session, h.arrival)]
    /\ UNCHANGED << now, devices, step_data, dbQueue, connections, sess,
                    suiClient, rowOrigin, registeredOn, pending, committed,
                    stage, cron, batch, onchain >>

\* suiClient.createPet settles before the timer: with the object created
\* the handler calls markPetOnChain; when the call threw or returned no
\* petObjectId it marks nothing.  It answers pet_data with its newPet.
CreateReturns(i, chain) ==
    /\ i \in 1..Len(inflight.handlers)
    /\ inflight.handlers[i].pc = "create"
    /\ LET h == inflight.handlers[i]
           d == h.device
       IN  /\ IF chain = "full"
              THEN /\ pets' = markPetOnChain(pets, d, Str("petObject"),
                                             Str("petTx"))
                   /\ onchain' = (d :> create_pet) @@ onchain
                   /\ lastReply' =
                        [to |-> h.session, type |-> "pet_data",
                         success |-> TRUE,
                         pet |-> [h.seen EXCEPT
                                    !.pet_object_id = Str("petObject"),
                                    !.on_chain = TRUE]]
              ELSE /\ lastReply' = [to |-> h.session, type |-> "pet_data",
                                    success |-> TRUE, pet |-> h.seen]
                   /\ UNCHANGED << pets, onchain >>
           /\ inflight' = [inflight EXCEPT
                             !.handlers = RemoveAt(@, i),
                             !.sent = Sent(h.session, h.arrival)]
    /\ UNCHANGED << now, devices, step_data, dbQueue, connections, sess,
                    suiClient, rowOrigin, registeredOn, pending, committed,
                    stage, cron, batch >>

\* The timer of the Promise.race fires first: 'Blockchain timeout after
\* 30s' is caught and the handler answers pet_data with its newPet.
Deadline(i) ==
    /\ i \in 1..Len(inflight.handlers)
    /\ inflight.handlers[i].pc = "create"
    /\ LET h == inflight.handlers[i]
       IN  /\ lastReply' = [to |-> h.session, type |-> "pet_data",
                            success |-> TRUE, pet |-> h.seen]
           /\ inflight' = [inflight EXCEPT
                             !.handlers = RemoveAt(@, i),
                             !.sent = Sent(h.session, h.arrival)]
    /\ UNCHANGED << now, devices, step_data, dbQueue, connections, sess,
                    pets, suiClient, rowOrigin, registeredOn, pending,
                    committed, stage, cron, batch, onchain >>

\* suiClient.getPet settles: the handler answers pet_data with its
\* updatedPet, five fields of it taken from the chain object when the read
\* returned one.
SyncReturns(i, chain) ==
    /\ i \in 1..Len(inflight.handlers)
    /\ inflight.handlers[i].pc = "sync"
    /\ LET h == inflight.handlers[i]
           onChainPet == getPet(onchain[h.device])
       IN  /\ lastReply' =
                [to |-> h.session, type |-> "pet_data", success |-> TRUE,
                 pet |-> IF chain = "full"
                         THEN [h.seen EXCEPT
                                 !.happiness = onChainPet.happiness,
                                 !.hunger = onChainPet.hunger,
                                 !.health = onChainPet.health,
                                 !.level = onChainPet.level,
                                 !.total_steps_fed = onChainPet.total_steps_fed]
                         ELSE h.seen]
           /\ inflight' = [inflight EXCEPT
                             !.handlers = RemoveAt(@, i),
                             !.sent = Sent(h.session, h.arrival)]
    /\ UNCHANGED << now, devices, step_data, dbQueue, connections, sess,
                    pets, suiClient, rowOrigin, registeredOn, pending,
                    committed, stage, cron, batch, onchain >>

NextCreate ==
    \/ \E s \in GatewaySessions : Connect(s)
    \/ \E s \in GatewaySessions : OnAuthenticateMessage(s, LocalAuthenticate)
    \/ \E s \in GatewaySessions : ArriveGetPet(s)
    \/ \E i \in 1..MaxArrivals : ResumeLookup(i)
    \/ \E i \in 1..MaxArrivals, chain \in ChainOutcomes : CreateReturns(i, chain)
    \/ \E i \in 1..MaxArrivals : Deadline(i)
    \/ \E i \in 1..MaxArrivals, chain \in ChainOutcomes : SyncReturns(i, chain)

SpecCreate == InitCreate /\ [][NextCreate]_vars

\* C39: the pet a getPet creates has happiness 50, hunger 50, health 100,
\* food 5, energy 5 and level 0, and however the getPet handlers of a device
\* interleave, one row is inserted for it and no second one: a row keeps its
\* id, and no id exceeds the number of devices that have a pet.
C39_OnePetPerDevice ==
    [][/\ \A d \in DOMAIN pets' \ DOMAIN pets :
             /\ pets'[d].happiness = Num(50)
             /\ pets'[d].hunger = Num(50)
             /\ pets'[d].health = Num(100)
             /\ pets'[d].food = Num(5)
             /\ pets'[d].energy = Num(5)
             /\ pets'[d].level = Num(0)
       /\ \A d \in DOMAIN pets : d \in DOMAIN pets' /\ pets'[d].id = pets[d].id
       /\ \A d \in DOMAIN pets' : pets'[d].id <= Cardinality(DOMAIN pets')]_vars

\* C39 witness: the pet of the device was created and answered, while
\* another getPet handler that had found no pet either is about to resume.
C39_Witness ==
    /\ "d1" \in DOMAIN pets
    /\ pets["d1"].food = Num(5)
    /\ lastReply.type = "pet_data"
    /\ \E i \in 1..Len(inflight.handlers) :
          /\ inflight.handlers[i].pc = "lookup"
          /\ inflight.handlers[i].seen = Undefined

\* C40: a getPet handled with a chain client for a pet that has no chain
\* handle, a pet whose earlier createPet failed included, starts
\* suiClient.createPet (no createPet being under way already).
C40_CreateRetried ==
    [][\A i \in 1..MaxArrivals :
          (/\ ResumeLookup(i)
           /\ suiClient
           /\ \A j \in 1..Len(inflight.handlers) :
                 inflight.handlers[j].pc # "create"
           /\ ~Truthy(pets'[inflight.handlers[i].device].pet_object_id))
          => \E j \in 1..Len(inflight'.handlers) :
                /\ inflight'.handlers[j].arrival = inflight.handlers[i].arrival
                /\ inflight'.handlers[j].pc = "create"]_vars

\* The event loop runs every continuation that is ready and every timer
\* fires; nothing makes the chain answer a call.
SpecCreateLive ==
    /\ SpecCreate
    /\ \A i \in 1..MaxArrivals : WF_vars(ResumeLookup(i))
    /\ \A i \in 1..MaxArrivals : WF_vars(Deadline(i))

\* C31: every request that makes a chain call is answered in the end, also
\* when the chain never answers the call: each getPet that arrived is
\* followed by its answer.
C31_AnsweredWithoutChain ==
    \A n \in 1..MaxArrivals :
        (inflight.arrivals >= n)
            ~> (\E k \in 1..Len(inflight.sent) : inflight.sent[k].arrival = n)

\* A getPet whose handler started suiClient.createPet is answered in the end.
CreateIsBounded ==
    \A n \in 1..MaxArrivals :
        (\E i \in 1..Len(inflight.handlers) :
            inflight.handlers[i].arrival = n /\ inflight.handlers[i].pc = "create")
            ~> (\E k \in 1..Len(inflight.sent) : inflight.sent[k].arrival = n)

====
